---- MODULE Spec2Model ----
(***************************************************************************)
(* Model of the orchestration core of flowbiz-ai-core:                     *)
(*   - InMemoryAgentRegistry / InMemoryToolRegistry  (versioned registry)  *)
(*   - AgentRuntime                                   (runtime/runtime.py) *)
(*   - PipelineRunner                                 (pipeline_runner.py) *)
(* Python dicts are functions whose DOMAIN is the set of keys; an optional *)
(* value (x | None) is a set with at most one element.                     *)
(***************************************************************************)
EXTENDS Integers, Sequences, FiniteSets, TLC

(***************************************************************************)
(* Bounds of the model.                                                    *)
(***************************************************************************)
MaxClock == 1
MaxSteps == 2
MaxRetries == 3
MaxRequired == 2
MaxOptional == 1

\* Python's None where it is a field value (version, output).
None == "None"

(***************************************************************************)
(* State.                                                                  *)
(***************************************************************************)
VARIABLES
    clock,       \* datetime.now(timezone.utc), as a counter
    agentReg,    \* InMemoryAgentRegistry._agents : name -> AgentRegistration
    toolReg,     \* InMemoryToolRegistry._tools   : name -> ToolRegistration
    regCall,     \* the last call on the agent registry and its outcome
    toolCall,    \* the last call on the tool registry and its outcome
    agentLog,    \* history: the AgentSpecs whose register call succeeded
    toolLog,     \* history: the ToolSpecs whose register call succeeded
    rtAgents,    \* AgentRuntime._agents : name -> handler object
    rtCall,      \* the last call on the runtime and its outcome
    lastToggle,  \* history: name -> the last enable_agent / disable_agent
                 \* call that returned (one that raised KeyError did nothing)
    plHandlers,  \* PipelineRunner._handlers : name -> callable
    plCall,      \* the last PipelineRunner.run call and its outcome
    plContexts,  \* the caller's context dicts : object -> (key -> value)
    retryCall,   \* the last run_with_retry call and its outcome
    rtrRules,    \* IntentRouter._rules : list of RoutingRule
    rtrCall,     \* the last call on the router and its outcome
    rtrAddedBefore, \* history: <<a, b>> when the latest add of rule id a
                 \* came before the latest add of rule id b
    permCall     \* the last check_tool_permission call and its outcome

vars == <<clock, agentReg, toolReg, regCall, toolCall, agentLog, toolLog,
          rtAgents, rtCall, lastToggle, plHandlers, plCall, plContexts,
          retryCall, rtrRules, rtrCall, rtrAddedBefore, permCall>>

registryVars == <<agentReg, toolReg, regCall, toolCall>>
historyVars  == <<agentLog, toolLog>>
runtimeVars  == <<rtAgents, rtCall, lastToggle>>
pipelineVars == <<plHandlers, plCall, plContexts>>
retryVars    == <<retryCall>>
routerVars   == <<rtrRules, rtrCall, rtrAddedBefore>>
permVars     == <<permCall>>

(***************************************************************************)
(* dict helpers                                                            *)
(***************************************************************************)
EmptyDict == [k \in {} |-> None]

DictPut(d, k, v) == [x \in DOMAIN d \cup {k} |-> IF x = k THEN v ELSE d[x]]

DictPop(d, k) == [x \in DOMAIN d \ {k} |-> d[x]]

\* dict.get(k): the value as a one-element set, or the empty set for None
DictGet(d, k) == IF k \in DOMAIN d THEN {d[k]} ELSE {}

(***************************************************************************)
(* contracts/agent_registry.py, contracts/tool_registry.py                 *)
(* The body of a spec stands for every field besides name and version      *)
(* (description, tags; for tools also input_schema and output_schema).     *)
(* Equality of pydantic models is structural, as is equality of records.   *)
(***************************************************************************)
RegNames == {"alpha", "bravo"}
Versions == {None, "1.0.0"}
Bodies   == {"d1", "d2"}

AgentSpec(name, version, body) ==
    [agent_name |-> name, version |-> version, body |-> body]

ToolSpec(name, version, body) ==
    [tool_name |-> name, version |-> version, body |-> body]

AgentRegistration(spec, enabled, created_at) ==
    [spec |-> spec, enabled |-> enabled, created_at |-> created_at]

ToolRegistration(spec, enabled, created_at) ==
    [spec |-> spec, enabled |-> enabled, created_at |-> created_at]

\* outcome of a registry call: the dict after it, the exception raised
\* (None when it returned), the offending version named by the error and the
\* returned registration (empty when nothing is returned)
Outcome(reg, raised, msg, ret) ==
    [reg |-> reg, raised |-> raised, msg |-> msg, ret |-> ret]

(***************************************************************************)
(* InMemoryAgentRegistry                                                   *)
(***************************************************************************)
AgentVersionStr(version) ==
    IF version # None THEN <<"'", version, "'">> ELSE <<"None (unversioned)">>

AgentSameVersionMut(existing, spec) == FALSE

AgentSameVersion(existing, spec) == existing.spec.version = spec.version

\* an overwrite that enables the entry, as a first registration does
AgentOverwriteEnabledMut(existing) == TRUE

\* line 103: enabled=existing.enabled
AgentOverwriteEnabled(existing) == existing.enabled

\* a conflict that stores the new spec before it raises
AgentConflictMut(reg, agent_name, spec, now) ==
    Outcome(DictPut(reg, agent_name, AgentRegistration(spec, TRUE, now)),
            "ValueError", <<agent_name, AgentVersionStr(spec.version)>>, {})

\* raise ValueError(...): nothing is stored
AgentConflict(reg, agent_name, spec, now) ==
    Outcome(reg, "ValueError",
            <<agent_name, AgentVersionStr(spec.version)>>, {})

\* an identical spec that is registered afresh: enabled, stamped now
AgentIdenticalMut(reg, agent_name, existing, now) ==
    LET registration == AgentRegistration(existing.spec, TRUE, now)
    IN  Outcome(DictPut(reg, agent_name, registration), None, <<>>,
                {registration})

\* lines 85-86: if existing.spec == spec: return existing
AgentIdentical(reg, agent_name, existing, now) ==
    Outcome(reg, None, <<>>, {existing})

InMemoryAgentRegistry_register(reg, spec, now) ==
    LET agent_name == spec.agent_name IN
    IF agent_name \notin DOMAIN reg
    THEN LET registration == AgentRegistration(spec, TRUE, now)
         IN  Outcome(DictPut(reg, agent_name, registration), None, <<>>,
                     {registration})
    ELSE LET existing == reg[agent_name] IN
         IF existing.spec = spec
         THEN AgentIdentical(reg, agent_name, existing, now)
         ELSE IF AgentSameVersion(existing, spec)
         THEN AgentConflict(reg, agent_name, spec, now)
         ELSE LET updated ==
                      AgentRegistration(spec, AgentOverwriteEnabled(existing), now)
              IN  Outcome(DictPut(reg, agent_name, updated), None, <<>>,
                          {updated})

InMemoryAgentRegistry_get(reg, agent_name) == DictGet(reg, agent_name)

\* a set_enabled that ignores a name it does not know
InMemoryAgentRegistry_set_enabledMut(reg, agent_name, enabled) ==
    IF agent_name \notin DOMAIN reg
    THEN Outcome(reg, None, <<>>, {})
    ELSE LET updated ==
                 AgentRegistration(reg[agent_name].spec, enabled,
                                   reg[agent_name].created_at)
         IN  Outcome(DictPut(reg, agent_name, updated), None, <<>>, {updated})

InMemoryAgentRegistry_set_enabled(reg, agent_name, enabled) ==
    IF agent_name \notin DOMAIN reg
    THEN Outcome(reg, "KeyError", <<agent_name>>, {})
    ELSE LET existing == reg[agent_name] IN
         IF existing.enabled = enabled
         THEN Outcome(reg, None, <<>>, {existing})
         ELSE LET updated ==
                      AgentRegistration(existing.spec, enabled,
                                        existing.created_at)
              IN  Outcome(DictPut(reg, agent_name, updated), None, <<>>,
                          {updated})

\* a remove by `del`, which fails on a name that is not there
InMemoryAgentRegistry_removeMut(reg, agent_name) ==
    IF agent_name \in DOMAIN reg
    THEN Outcome(DictPop(reg, agent_name), None, <<>>, {})
    ELSE Outcome(reg, "KeyError", <<agent_name>>, {})

InMemoryAgentRegistry_remove(reg, agent_name) ==
    Outcome(DictPop(reg, agent_name), None, <<>>, {})

(***************************************************************************)
(* list_all.  list(dict.values()) follows the insertion order of the dict, *)
(* which the dict of the model does not keep: the order is any order of    *)
(* the keys.  sorted() compares the names as str.                          *)
(***************************************************************************)
DictOrders(d) ==
    {order \in [1..Cardinality(DOMAIN d) -> DOMAIN d] :
        \A i, j \in 1..Cardinality(DOMAIN d) : i # j => order[i] # order[j]}

\* the order of the names as str
NameRank(name) ==
    CASE name = "alpha" -> 1 [] name = "bravo" -> 2 [] name = "echo" -> 3
      [] OTHER -> 4

\* a filter that lets every registration through
ListVisibleMut(registration, include_disabled) == TRUE

\* if not include_disabled: keep the registrations with enabled
ListVisible(registration, include_disabled) ==
    include_disabled \/ registration.enabled

\* a sort that leaves the registrations in the order of the dict
InsertByNameMut(sorted, item) == Append(sorted, item)

\* sorted(..., key=name): an item goes after the items of no greater name
InsertByName(sorted, item) ==
    LET n == Cardinality({i \in 1..Len(sorted) :
                             NameRank(sorted[i].key) <= NameRank(item.key)})
    IN  SubSeq(sorted, 1, n) \o <<item>> \o SubSeq(sorted, n + 1, Len(sorted))

RECURSIVE SortedByName(_, _)
SortedByName(items, n) ==
    IF n = 0 THEN <<>>
    ELSE InsertByName(SortedByName(items, n - 1), items[n])

InMemoryAgentRegistry_list_all(reg, order, include_disabled) ==
    LET agents == [i \in 1..Len(order) |-> reg[order[i]]]
        kept   == SelectSeq(agents, LAMBDA r : ListVisible(r, include_disabled))
        keyed  == [i \in 1..Len(kept) |->
                      [key |-> kept[i].spec.agent_name, value |-> kept[i]]]
        sorted == SortedByName(keyed, Len(keyed))
    IN  [i \in 1..Len(sorted) |-> sorted[i].value]

InMemoryToolRegistry_list_all(reg, order, include_disabled) ==
    LET tools  == [i \in 1..Len(order) |-> reg[order[i]]]
        kept   == SelectSeq(tools, LAMBDA t : ListVisible(t, include_disabled))
        keyed  == [i \in 1..Len(kept) |->
                      [key |-> kept[i].spec.tool_name, value |-> kept[i]]]
        sorted == SortedByName(keyed, Len(keyed))
    IN  [i \in 1..Len(sorted) |-> sorted[i].value]

(***************************************************************************)
(* InMemoryToolRegistry                                                    *)
(***************************************************************************)
ToolVersionStr(version) == <<"'", version, "'">>

\* a tool registry that lets a same-version change through
ToolSameVersionMut(existing, spec) == FALSE

ToolSameVersion(existing, spec) == existing.spec.version = spec.version

\* raise ValueError(...): nothing is stored
ToolConflict(reg, tool_name, spec, now) ==
    Outcome(reg, "ValueError",
            <<tool_name, ToolVersionStr(spec.version)>>, {})

InMemoryToolRegistry_register(reg, spec, now) ==
    LET tool_name == spec.tool_name IN
    IF tool_name \notin DOMAIN reg
    THEN LET registration == ToolRegistration(spec, TRUE, now)
         IN  Outcome(DictPut(reg, tool_name, registration), None, <<>>,
                     {registration})
    ELSE LET existing == reg[tool_name] IN
         IF existing.spec = spec
         THEN Outcome(reg, None, <<>>, {existing})
         ELSE IF ToolSameVersion(existing, spec)
         THEN ToolConflict(reg, tool_name, spec, now)
         ELSE LET registration ==
                      ToolRegistration(spec, existing.enabled, now)
              IN  Outcome(DictPut(reg, tool_name, registration), None, <<>>,
                          {registration})

InMemoryToolRegistry_get(reg, tool_name) == DictGet(reg, tool_name)

InMemoryToolRegistry_set_enabled(reg, tool_name, enabled) ==
    IF tool_name \notin DOMAIN reg
    THEN Outcome(reg, "KeyError", <<tool_name>>, {})
    ELSE LET existing == reg[tool_name] IN
         IF existing.enabled = enabled
         THEN Outcome(reg, None, <<>>, {existing})
         ELSE LET updated ==
                      ToolRegistration(existing.spec, enabled,
                                       existing.created_at)
              IN  Outcome(DictPut(reg, tool_name, updated), None, <<>>,
                          {updated})

InMemoryToolRegistry_remove(reg, tool_name) ==
    Outcome(DictPop(reg, tool_name), None, <<>>, {})

(***************************************************************************)
(* Registry calls.  The agent registry and the tool registry are two       *)
(* independent objects; the caller drives both with the same sequence of   *)
(* calls, on specs that correspond in name, version and body.              *)
(***************************************************************************)
RegCall(op, name, spec, enabled, prev, out) ==
    [op |-> op, name |-> name, spec |-> spec, enabled |-> enabled,
     prev |-> prev, raised |-> out.raised, msg |-> out.msg, ret |-> out.ret,
     include_disabled |-> FALSE, listed |-> <<>>]

NoCall ==
    [op |-> "none", name |-> None, spec |-> {}, enabled |-> FALSE,
     prev |-> {}, raised |-> None, msg |-> <<>>, ret |-> {},
     include_disabled |-> FALSE, listed |-> <<>>]

AgentRegister(spec) ==
    LET out == InMemoryAgentRegistry_register(agentReg, spec, clock) IN
    /\ agentReg' = out.reg
    /\ regCall' = RegCall("register", spec.agent_name, {spec}, FALSE,
                          DictGet(agentReg, spec.agent_name), out)

ToolRegister(spec) ==
    LET out == InMemoryToolRegistry_register(toolReg, spec, clock) IN
    /\ toolReg' = out.reg
    /\ toolCall' = RegCall("register", spec.tool_name, {spec}, FALSE,
                           DictGet(toolReg, spec.tool_name), out)

AgentSetEnabled(name, enabled) ==
    LET out == InMemoryAgentRegistry_set_enabled(agentReg, name, enabled) IN
    /\ agentReg' = out.reg
    /\ regCall' = RegCall("set_enabled", name, {}, enabled,
                          DictGet(agentReg, name), out)

ToolSetEnabled(name, enabled) ==
    LET out == InMemoryToolRegistry_set_enabled(toolReg, name, enabled) IN
    /\ toolReg' = out.reg
    /\ toolCall' = RegCall("set_enabled", name, {}, enabled,
                           DictGet(toolReg, name), out)

AgentRemove(name) ==
    LET out == InMemoryAgentRegistry_remove(agentReg, name) IN
    /\ agentReg' = out.reg
    /\ regCall' = RegCall("remove", name, {}, FALSE,
                          DictGet(agentReg, name), out)

ToolRemove(name) ==
    LET out == InMemoryToolRegistry_remove(toolReg, name) IN
    /\ toolReg' = out.reg
    /\ toolCall' = RegCall("remove", name, {}, FALSE,
                           DictGet(toolReg, name), out)

Register(name, version, body) ==
    /\ AgentRegister(AgentSpec(name, version, body))
    /\ ToolRegister(ToolSpec(name, version, body))
    /\ UNCHANGED <<clock, historyVars, runtimeVars,
                   pipelineVars, retryVars, routerVars, permVars>>

\* register, with the specs of the successful calls kept in the history
RegisterLogged(name, version, body) ==
    /\ AgentRegister(AgentSpec(name, version, body))
    /\ ToolRegister(ToolSpec(name, version, body))
    /\ agentLog' = IF regCall'.raised = None
                   THEN agentLog \cup {AgentSpec(name, version, body)}
                   ELSE agentLog
    /\ toolLog' = IF toolCall'.raised = None
                  THEN toolLog \cup {ToolSpec(name, version, body)}
                  ELSE toolLog
    /\ UNCHANGED <<clock, runtimeVars,
                   pipelineVars, retryVars, routerVars, permVars>>

SetEnabled(name, enabled) ==
    /\ AgentSetEnabled(name, enabled)
    /\ ToolSetEnabled(name, enabled)
    /\ UNCHANGED <<clock, historyVars, runtimeVars,
                   pipelineVars, retryVars, routerVars, permVars>>

Remove(name) ==
    /\ AgentRemove(name)
    /\ ToolRemove(name)
    /\ UNCHANGED <<clock, historyVars, runtimeVars,
                   pipelineVars, retryVars, routerVars, permVars>>

\* get(name) on both registries
Get(name) ==
    /\ regCall' = RegCall("get", name, {}, FALSE, DictGet(agentReg, name),
                          Outcome(agentReg, None, <<>>,
                                  InMemoryAgentRegistry_get(agentReg, name)))
    /\ toolCall' = RegCall("get", name, {}, FALSE, DictGet(toolReg, name),
                           Outcome(toolReg, None, <<>>,
                                   InMemoryToolRegistry_get(toolReg, name)))
    /\ UNCHANGED <<agentReg, toolReg, clock, historyVars, runtimeVars,
                   pipelineVars, retryVars, routerVars, permVars>>

\* list_all(include_disabled) on both registries, each dict in some order
ListAll(include_disabled) ==
    /\ \E order \in DictOrders(agentReg) :
          regCall' = [NoCall EXCEPT
                         !.op = "list_all",
                         !.include_disabled = include_disabled,
                         !.listed = InMemoryAgentRegistry_list_all(
                                        agentReg, order, include_disabled)]
    /\ \E order \in DictOrders(toolReg) :
          toolCall' = [NoCall EXCEPT
                          !.op = "list_all",
                          !.include_disabled = include_disabled,
                          !.listed = InMemoryToolRegistry_list_all(
                                         toolReg, order, include_disabled)]
    /\ UNCHANGED <<agentReg, toolReg, clock, historyVars, runtimeVars,
                   pipelineVars, retryVars, routerVars, permVars>>

\* time passes between two calls
RegistryTick ==
    /\ clock < MaxClock
    /\ clock' = clock + 1
    /\ UNCHANGED <<registryVars, historyVars, runtimeVars,
                   pipelineVars, retryVars, routerVars, permVars>>

InitRegistry ==
    /\ clock = 0
    /\ agentReg = EmptyDict
    /\ toolReg = EmptyDict
    /\ regCall = NoCall
    /\ toolCall = NoCall
    /\ agentLog = {}
    /\ toolLog = {}
    /\ rtAgents = EmptyDict
    /\ rtCall = NoCall
    /\ lastToggle = EmptyDict
    /\ plHandlers = EmptyDict
    /\ plCall = NoCall
    /\ plContexts = EmptyDict
    /\ retryCall = NoCall
    /\ rtrRules = <<>>
    /\ rtrAddedBefore = {}
    /\ rtrCall = NoCall
    /\ permCall = NoCall

NextRegistry ==
    \/ \E name \in RegNames, version \in Versions, body \in Bodies :
          Register(name, version, body)
    \/ \E name \in RegNames, enabled \in BOOLEAN : SetEnabled(name, enabled)
    \/ \E name \in RegNames : Remove(name)
    \/ \E name \in RegNames : Get(name)
    \/ \E include_disabled \in BOOLEAN : ListAll(include_disabled)
    \/ RegistryTick

SpecRegistry == InitRegistry /\ [][NextRegistry]_vars

\* the same calls at one instant, with the history of successful registers
NextRegistryHistory ==
    \/ \E name \in RegNames, version \in Versions, body \in Bodies :
          RegisterLogged(name, version, body)
    \/ \E name \in RegNames, enabled \in BOOLEAN : SetEnabled(name, enabled)
    \/ \E name \in RegNames : Remove(name)

SpecRegistryHistory == InitRegistry /\ [][NextRegistryHistory]_vars

(***************************************************************************)
(* runtime/context.py, runtime/result.py                                   *)
(***************************************************************************)
GeneratedTraceId == "uuid4"

\* RuntimeContext.__init__: trace_id or str(uuid.uuid4())
RuntimeContext(agent, input, trace_id) ==
    [agent |-> agent, input |-> input,
     trace_id |-> IF trace_id \in {None, ""} THEN GeneratedTraceId
                  ELSE trace_id]

RuntimeError(code, message, details) ==
    [code |-> code, message |-> message, details |-> details]

RuntimeResult(status, trace_id, agent, output, errors) ==
    [status |-> status, trace_id |-> trace_id, agent |-> agent,
     output |-> output, errors |-> errors]

(***************************************************************************)
(* Handler objects: an AgentBase has a name; its class decides what        *)
(* execute does.  EchoAgent (runtime/agents/echo.py) returns the input;    *)
(* FailingAgent (tests/test_runtime_unit.py) raises ValueError.            *)
(***************************************************************************)
AgentNames   == {"echo", "failing"}
AgentClasses == {"EchoAgent", "FailingAgent"}
Agent(name, cls) == [name |-> name, cls |-> cls]

\* the outcome of agent.execute(ctx): a result, or an exception with its str()
Execute(agent, ctx) ==
    IF agent.cls = "EchoAgent"
    THEN [raised |-> None, message |-> <<>>,
          result |-> {RuntimeResult("ok", ctx.trace_id, agent.name,
                                    ctx.input, <<>>)}]
    ELSE [raised |-> "ValueError", message |-> <<"Intentional failure">>,
          result |-> {}]

(***************************************************************************)
(* AgentRuntime                                                            *)
(***************************************************************************)
\* AgentSpec(agent_name=agent.name, description=agent.__class__.__name__)
SpecOfAgent(agent) == AgentSpec(agent.name, None, agent.cls)

AgentRuntime_ensure_registry_entry(reg, agent, now) ==
    IF InMemoryAgentRegistry_get(reg, agent.name) # {}
    THEN reg
    ELSE InMemoryAgentRegistry_register(reg, SpecOfAgent(agent), now).reg

\* self._agents[agent.name] = agent, then self._registry.register(...)
AgentRuntime_register_agent(agents, reg, now, agent) ==
    LET out == InMemoryAgentRegistry_register(reg, SpecOfAgent(agent), now)
    IN  [agents |-> DictPut(agents, agent.name, agent), reg |-> out.reg,
         raised |-> out.raised]

AgentRuntime_set_agent_enabled(agents, reg, now, agent_name, enabled) ==
    LET agent == DictGet(agents, agent_name)
        reg1  == IF agent # {}
                 THEN AgentRuntime_ensure_registry_entry(
                          reg, CHOOSE a \in agent : TRUE, now)
                 ELSE reg
        out   == InMemoryAgentRegistry_set_enabled(reg1, agent_name, enabled)
    IN  [agents |-> agents, reg |-> out.reg, raised |-> out.raised]

\* the result returned when ctx.agent is not in the handler map
AgentNotFound(ctx) ==
    RuntimeResult("error", ctx.trace_id, ctx.agent, None,
        << RuntimeError("AGENT_NOT_FOUND", <<"Agent", ctx.agent, "not found">>,
                        {<<"agent", ctx.agent>>}) >>)

\* a result for a disabled agent that tells the enabled flag in its details
AgentNotAvailableMut(ctx) ==
    RuntimeResult("error", ctx.trace_id, ctx.agent, None,
        << RuntimeError("AGENT_NOT_FOUND",
                        <<"Agent", ctx.agent, "is not available">>,
                        {<<"agent", ctx.agent>>, <<"enabled", "False">>}) >>)

\* the result returned when the registry entry is missing or disabled
AgentNotAvailable(ctx) ==
    RuntimeResult("error", ctx.trace_id, ctx.agent, None,
        << RuntimeError("AGENT_NOT_FOUND",
                        <<"Agent", ctx.agent, "is not available">>,
                        {<<"agent", ctx.agent>>}) >>)

\* a registration check that looks only at the presence of the entry
RegistrationBlocksMut(registration) == registration = {}

\* registration is None or not registration.enabled
RegistrationBlocks(registration) ==
    registration = {} \/ \E r \in registration : ~r.enabled

\* an except clause that lets the exception through
HandlerOutcomeMut(ctx, exec) ==
    [raised |-> exec.raised, result |-> exec.result]

\* try: return agent.execute(ctx) / except Exception as exc: ...
HandlerOutcome(ctx, exec) ==
    IF exec.raised = None
    THEN [raised |-> None, result |-> exec.result]
    ELSE [raised |-> None,
          result |-> {RuntimeResult("error", ctx.trace_id, ctx.agent, None,
                        << RuntimeError("RUNTIME_ERROR", exec.message, {}) >>)}]

\* run(ctx): the registry after the call, the exception that escapes (None
\* when run returns), the returned result, the handlers whose execute was
\* called and whether the registry entry was created by this call
AgentRuntime_run(agents, reg, now, ctx) ==
    LET agent == DictGet(agents, ctx.agent) IN
    IF agent = {}
    THEN [reg |-> reg, raised |-> None, result |-> {AgentNotFound(ctx)},
          invoked |-> <<>>, backfilled |-> FALSE]
    ELSE LET a    == CHOOSE x \in agent : TRUE
             reg1 == AgentRuntime_ensure_registry_entry(reg, a, now)
             registration == InMemoryAgentRegistry_get(reg1, ctx.agent)
         IN  IF RegistrationBlocks(registration)
             THEN [reg |-> reg1, raised |-> None,
                   result |-> {AgentNotAvailable(ctx)},
                   invoked |-> <<>>, backfilled |-> reg1 # reg]
             ELSE LET out == HandlerOutcome(ctx, Execute(a, ctx))
                  IN  [reg |-> reg1, raised |-> out.raised,
                       result |-> out.result,
                       invoked |-> <<a>>, backfilled |-> reg1 # reg]

(***************************************************************************)
(* Runtime calls                                                           *)
(***************************************************************************)
CtxAgents == AgentNames \cup {"ghost"}
Inputs    == {"hello"}
TraceIds  == {None, "custom-789"}
Gates     == {"AllowAllSafetyGate", "DenyGate"}

RtCall(op, agent, gate, ctx, raised, result, invoked, backfilled) ==
    [op |-> op, agent |-> agent, gate |-> gate, ctx |-> ctx,
     raised |-> raised, result |-> result, invoked |-> invoked,
     backfilled |-> backfilled]

\* the state of a runtime built by AgentRuntime() at time now
FreshRuntime(now) ==
    AgentRuntime_register_agent(EmptyDict, EmptyDict, now,
                                Agent("echo", "EchoAgent"))

\* AgentRuntime(): __init__ takes no argument besides self
Construct ==
    /\ rtAgents' = FreshRuntime(clock).agents
    /\ agentReg' = FreshRuntime(clock).reg
    /\ lastToggle' = EmptyDict
    /\ rtCall' = RtCall("init", None, None, {}, None, {}, <<>>, FALSE)
    /\ UNCHANGED <<clock, toolReg, regCall, toolCall, historyVars,
                   pipelineVars, retryVars, routerVars, permVars>>

\* AgentRuntime(safety_gate=gate): __init__ has no such parameter, the call
\* raises TypeError and no runtime is built
ConstructWithGate(gate) ==
    /\ rtCall' = RtCall("init", None, gate, {}, "TypeError", {}, <<>>, FALSE)
    /\ UNCHANGED <<clock, rtAgents, lastToggle, registryVars, historyVars,
                   pipelineVars, retryVars, routerVars, permVars>>

RegisterAgent(agent) ==
    LET out == AgentRuntime_register_agent(rtAgents, agentReg, clock, agent)
    IN  /\ rtAgents' = out.agents
        /\ agentReg' = out.reg
        /\ rtCall' = RtCall("register_agent", agent.name, None, {},
                            out.raised, {}, <<>>, FALSE)
        /\ UNCHANGED <<clock, lastToggle, toolReg, regCall, toolCall,
                       historyVars, pipelineVars, retryVars,
                       routerVars, permVars>>

\* runtime._agents[agent.name] = agent, the direct mutation of the map
PutAgent(agent) ==
    /\ rtAgents' = DictPut(rtAgents, agent.name, agent)
    /\ rtCall' = RtCall("put", agent.name, None, {}, None, {}, <<>>, FALSE)
    /\ UNCHANGED <<clock, lastToggle, registryVars, historyVars,
                   pipelineVars, retryVars, routerVars, permVars>>

SetAgentEnabled(op, agent_name, enabled) ==
    LET out == AgentRuntime_set_agent_enabled(rtAgents, agentReg, clock,
                                              agent_name, enabled)
    IN  /\ agentReg' = out.reg
        /\ lastToggle' = IF out.raised = None
                         THEN DictPut(lastToggle, agent_name, op)
                         ELSE lastToggle
        /\ rtCall' = RtCall(op, agent_name, None, {}, out.raised, {}, <<>>,
                            FALSE)
        /\ UNCHANGED <<clock, rtAgents, toolReg, regCall, toolCall,
                       historyVars, pipelineVars, retryVars,
                       routerVars, permVars>>

EnableAgent(agent_name) == SetAgentEnabled("enable_agent", agent_name, TRUE)

DisableAgent(agent_name) == SetAgentEnabled("disable_agent", agent_name, FALSE)

Run(ctx) ==
    LET out == AgentRuntime_run(rtAgents, agentReg, clock, ctx)
    IN  /\ agentReg' = out.reg
        /\ rtCall' = RtCall("run", ctx.agent, None, {ctx}, out.raised,
                            out.result, out.invoked, out.backfilled)
        /\ UNCHANGED <<clock, rtAgents, lastToggle, toolReg, regCall,
                       toolCall, historyVars, pipelineVars, retryVars,
                       routerVars, permVars>>

RuntimeTick ==
    /\ clock < MaxClock
    /\ clock' = clock + 1
    /\ UNCHANGED <<registryVars, historyVars, runtimeVars,
                   pipelineVars, retryVars, routerVars, permVars>>

InitRuntime ==
    /\ clock = 0
    /\ rtAgents = FreshRuntime(0).agents
    /\ agentReg = FreshRuntime(0).reg
    /\ lastToggle = EmptyDict
    /\ rtCall = RtCall("init", None, None, {}, None, {}, <<>>, FALSE)
    /\ toolReg = EmptyDict
    /\ regCall = NoCall
    /\ toolCall = NoCall
    /\ agentLog = {}
    /\ toolLog = {}
    /\ plHandlers = EmptyDict
    /\ plCall = NoCall
    /\ plContexts = EmptyDict
    /\ retryCall = NoCall
    /\ rtrRules = <<>>
    /\ rtrAddedBefore = {}
    /\ rtrCall = NoCall
    /\ permCall = NoCall

NextRuntime ==
    \/ Construct
    \/ \E gate \in Gates : ConstructWithGate(gate)
    \/ \E name \in AgentNames, cls \in AgentClasses :
          RegisterAgent(Agent(name, cls))
    \/ \E name \in AgentNames, cls \in AgentClasses : PutAgent(Agent(name, cls))
    \/ \E name \in CtxAgents : EnableAgent(name)
    \/ \E name \in CtxAgents : DisableAgent(name)
    \/ \E agent \in CtxAgents, input \in Inputs, trace_id \in TraceIds :
          Run(RuntimeContext(agent, input, trace_id))
    \/ RuntimeTick

SpecRuntime == InitRuntime /\ [][NextRuntime]_vars

(***************************************************************************)
(* contracts/pipeline.py                                                   *)
(***************************************************************************)
StopConditions == {"on_error", "on_success", "always", "never"}

PipelineStep(step_name, handler, stop_condition, enabled) ==
    [step_name |-> step_name, handler |-> handler,
     stop_condition |-> stop_condition, enabled |-> enabled]

\* output and error are optional: a set with at most one element
StepResult(step_name, status, output, error) ==
    [step_name |-> step_name, status |-> status, output |-> output,
     error |-> error]

PipelineResult(pipeline_name, status, step_results) ==
    [pipeline_name |-> pipeline_name, status |-> status,
     step_results |-> step_results]

(***************************************************************************)
(* Step handlers.  A callable either returns a value or raises; the two    *)
(* callables are those of tests/test_pipeline_runner.py: "ok" returns      *)
(* "ok", "fail" raises RuntimeError("boom").  Two more callables use the   *)
(* dict they are handed: "put" sets ctx["step"] = "done" and "pop" does    *)
(* ctx.pop("key", None); both return "ok".                                 *)
(***************************************************************************)
Callables == {"ok", "fail"}
ContextCallables == {"put", "pop", "fail"}

\* handler(ctx): the value returned, or the exception raised with its str()
CallHandler(fn) ==
    IF fn # "fail"
    THEN [raised |-> None, output |-> {"ok"}, message |-> {}]
    ELSE [raised |-> "RuntimeError", output |-> {}, message |-> {<<"boom">>}]

(***************************************************************************)
(* PipelineRunner                                                          *)
(***************************************************************************)
PipelineRunner_register_handler(handlers, name, handler) ==
    DictPut(handlers, name, handler)

\* a missing handler that halts the run only for "always"
StopsOnMissingMut(stop_condition) == stop_condition \in {"always"}

\* line 53: if step.stop_condition in ("on_error", "always"): break
StopsOnMissing(stop_condition) == stop_condition \in {"on_error", "always"}

\* a completed step that halts the run also for "never"
StopsOnSuccessMut(stop_condition) ==
    stop_condition \in {"on_success", "always", "never"}

\* line 63: if step.stop_condition in ("on_success", "always"): break
StopsOnSuccess(stop_condition) == stop_condition \in {"on_success", "always"}

\* line 73: if step.stop_condition in ("on_error", "always"): break
StopsOnError(stop_condition) == stop_condition \in {"on_error", "always"}

\* an overall status that the last step decides
OverallAfterMut(overall, status) == IF status = "failed" THEN "failed" ELSE "completed"

\* overall = "failed" in the two failure branches, untouched otherwise
OverallAfter(overall, status) == IF status = "failed" THEN "failed" ELSE overall

\* an except clause that lets the exception through
TryHandlerMut(step, fn) ==
    LET call == CallHandler(fn) IN
    [raised |-> call.raised,
     result |-> StepResult(step.step_name,
                           IF call.raised = None THEN "completed" ELSE "failed",
                           call.output, call.message)]

\* try: output = handler(ctx) ... except Exception as exc: ...
TryHandler(step, fn) ==
    LET call == CallHandler(fn) IN
    IF call.raised = None
    THEN [raised |-> None,
          result |-> StepResult(step.step_name, "completed", call.output, {})]
    ELSE [raised |-> None,
          result |-> StepResult(step.step_name, "failed", {}, call.message)]

\* handler(ctx): the dict the handler was handed, once it is done with it
HandlerWrites(fn, ctx) ==
    CASE fn = "put" -> DictPut(ctx, "step", "done")
      [] fn = "pop" -> DictPop(ctx, "key")
      [] OTHER -> ctx

\* ctx = context or {}: the caller's dict itself, unless it is empty
CopyContextMut(context) ==
    IF context = {} \/ context = {EmptyDict}
    THEN [shared |-> FALSE, map |-> EmptyDict]
    ELSE [shared |-> TRUE, map |-> CHOOSE c \in context : TRUE]

\* line 35: ctx = dict(context or {}), a new dict with the caller's entries
CopyContext(context) ==
    [shared |-> FALSE,
     map |-> IF context = {} THEN EmptyDict ELSE CHOOSE c \in context : TRUE]

\* a disabled step recorded as failed
SkippedResultMut(step) == StepResult(step.step_name, "failed", {}, {})

\* lines 40-41: results.append(StepResult(step_name=..., status="skipped"))
SkippedResult(step) == StepResult(step.step_name, "skipped", {}, {})

\* the error of a step whose handler is not registered
NoHandlerError(handler) == <<"No handler registered for", handler>>

\* the state of the loop of run: the results so far, the overall status, the
\* steps whose handler was called, the exception that left the loop, the
\* dict ctx and what ctx held at each call of a handler
LoopState(results, overall, invoked, raised, ctx, seen) ==
    [results |-> results, overall |-> overall, invoked |-> invoked,
     raised |-> raised, ctx |-> ctx, seen |-> seen]

RECURSIVE PipelineLoop(_, _, _, _)
\* for step in spec.steps, from the i-th step on
PipelineLoop(handlers, steps, i, st) ==
    IF i > Len(steps)
    THEN st
    ELSE LET step == steps[i] IN
         IF ~step.enabled
         THEN PipelineLoop(handlers, steps, i + 1,
                  LoopState(Append(st.results, SkippedResult(step)),
                            st.overall, st.invoked, None, st.ctx, st.seen))
         ELSE IF DictGet(handlers, step.handler) = {}
         THEN LET next ==
                      LoopState(Append(st.results,
                                       StepResult(step.step_name, "failed", {},
                                                  {NoHandlerError(step.handler)})),
                                OverallAfter(st.overall, "failed"),
                                st.invoked, None, st.ctx, st.seen)
              IN  IF StopsOnMissing(step.stop_condition)
                  THEN next
                  ELSE PipelineLoop(handlers, steps, i + 1, next)
         ELSE LET try  == TryHandler(step, handlers[step.handler])
                  next == LoopState(Append(st.results, try.result),
                                    OverallAfter(st.overall, try.result.status),
                                    Append(st.invoked, step.step_name),
                                    try.raised,
                                    HandlerWrites(handlers[step.handler], st.ctx),
                                    Append(st.seen, st.ctx))
              IN  IF try.raised # None
                  THEN LoopState(st.results, st.overall, next.invoked,
                                 try.raised, next.ctx, next.seen)
                  ELSE IF try.result.status = "completed"
                  THEN IF StopsOnSuccess(step.stop_condition)
                       THEN next
                       ELSE PipelineLoop(handlers, steps, i + 1, next)
                  ELSE IF StopsOnError(step.stop_condition)
                       THEN next
                       ELSE PipelineLoop(handlers, steps, i + 1, next)

\* run(spec, context): the exception that escapes (None when run returns),
\* the returned PipelineResult, the steps whose handler was called, what ctx
\* held at each of these calls, and the caller's dict as run leaves it
PipelineRunner_run(handlers, spec, context) ==
    LET ctx == CopyContext(context)
        st  == PipelineLoop(handlers, spec.steps, 1,
                            LoopState(<<>>, "completed", <<>>, None,
                                      ctx.map, <<>>))
    IN  [raised |-> st.raised,
         result |-> IF st.raised = None
                    THEN {PipelineResult(spec.pipeline_name, st.overall,
                                         st.results)}
                    ELSE {},
         invoked |-> st.invoked,
         seen |-> st.seen,
         context |-> IF ctx.shared THEN {st.ctx} ELSE context]

(***************************************************************************)
(* Pipeline calls.  The caller holds one PipelineSpec (plCall.spec), a     *)
(* frozen value drawn when the model starts; handlers are registered and   *)
(* the spec is run in any order.                                           *)
(***************************************************************************)
StepHandlerNames == Callables \cup {"nope"}
StepNames == <<"s1", "s2", "s3", "s4">>

StepsOfLen(n) ==
    {[i \in 1..n |-> PipelineStep(StepNames[i], f[i].handler,
                                  f[i].stop_condition, f[i].enabled)] :
        f \in [1..n -> [handler : StepHandlerNames,
                        stop_condition : StopConditions,
                        enabled : BOOLEAN]]}

PipelineSpecs ==
    {[pipeline_name |-> "p", steps |-> steps] :
        steps \in UNION {StepsOfLen(n) : n \in 0..MaxSteps}}

\* the dicts the caller holds, by object: one as in
\* test_context_passed_to_handler, one empty
CallerContexts ==
    [object \in {"c1", "c2"} |->
        IF object = "c1" THEN [k \in {"key"} |-> "value"] ELSE EmptyDict]

\* the context argument: None (the empty set) or one of the caller's dicts
ContextArgs == {{}} \cup {{object} : object \in DOMAIN CallerContexts}

\* a run call: the spec, the handler map and the context argument it ran
\* with, and its outcome
PlCall(op, spec, handlers, context, out) ==
    [op |-> op, spec |-> spec, handlers |-> handlers, context |-> context,
     raised |-> out.raised, result |-> out.result, invoked |-> out.invoked,
     seen |-> out.seen]

NoRun == [raised |-> None, result |-> {}, invoked |-> <<>>, seen |-> <<>>]

\* runner.register_handler(name, fn) with the callable of that name
RegisterHandler(name) ==
    /\ plHandlers' = PipelineRunner_register_handler(plHandlers, name, name)
    /\ UNCHANGED <<plCall, plContexts, clock, registryVars, historyVars,
                   runtimeVars, retryVars, routerVars, permVars>>

\* runner.run(spec, context): context is None or one of the caller's dicts,
\* which is what run leaves of it once the call is over
RunPipeline(context) ==
    LET out == PipelineRunner_run(plHandlers, plCall.spec,
                                  {plContexts[object] : object \in context})
    IN  /\ plCall' = PlCall("run", plCall.spec, plHandlers, context, out)
        /\ plContexts' = [object \in DOMAIN plContexts |->
                             IF object \in context
                             THEN CHOOSE c \in out.context : TRUE
                             ELSE plContexts[object]]
        /\ UNCHANGED <<plHandlers, clock, registryVars, historyVars,
                       runtimeVars, retryVars, routerVars, permVars>>

InitPipeline ==
    /\ plHandlers = EmptyDict
    /\ plCall \in {PlCall("none", spec, EmptyDict, {}, NoRun) :
                      spec \in PipelineSpecs}
    /\ plContexts = CallerContexts
    /\ clock = 0
    /\ agentReg = EmptyDict
    /\ toolReg = EmptyDict
    /\ regCall = NoCall
    /\ toolCall = NoCall
    /\ agentLog = {}
    /\ toolLog = {}
    /\ rtAgents = EmptyDict
    /\ rtCall = NoCall
    /\ lastToggle = EmptyDict
    /\ retryCall = NoCall
    /\ rtrRules = <<>>
    /\ rtrAddedBefore = {}
    /\ rtrCall = NoCall
    /\ permCall = NoCall

\* the callables of this specification ignore ctx: run(spec) stands for all
NextPipeline ==
    \/ \E name \in Callables : RegisterHandler(name)
    \/ RunPipeline({})

SpecPipeline == InitPipeline /\ [][NextPipeline]_vars

(***************************************************************************)
(* The same runner, with the callables that use the context.               *)
(***************************************************************************)
\* stop conditions that let a run go on after a step and that end it
ContextStopConditions == {"never", "on_error"}

ContextStepsOfLen(n) ==
    {[i \in 1..n |-> PipelineStep(StepNames[i], f[i].handler,
                                  f[i].stop_condition, f[i].enabled)] :
        f \in [1..n -> [handler : ContextCallables,
                        stop_condition : ContextStopConditions,
                        enabled : BOOLEAN]]}

ContextPipelineSpecs ==
    {[pipeline_name |-> "ctx", steps |-> steps] :
        steps \in UNION {ContextStepsOfLen(n) : n \in 0..MaxSteps}}

InitPipelineContext ==
    /\ plHandlers = EmptyDict
    /\ plCall \in {PlCall("none", spec, EmptyDict, {}, NoRun) :
                      spec \in ContextPipelineSpecs}
    /\ plContexts = CallerContexts
    /\ clock = 0
    /\ agentReg = EmptyDict
    /\ toolReg = EmptyDict
    /\ regCall = NoCall
    /\ toolCall = NoCall
    /\ agentLog = {}
    /\ toolLog = {}
    /\ rtAgents = EmptyDict
    /\ rtCall = NoCall
    /\ lastToggle = EmptyDict
    /\ retryCall = NoCall
    /\ rtrRules = <<>>
    /\ rtrAddedBefore = {}
    /\ rtrCall = NoCall
    /\ permCall = NoCall

NextPipelineContext ==
    \/ \E name \in ContextCallables : RegisterHandler(name)
    \/ \E context \in ContextArgs : RunPipeline(context)

SpecPipelineContext == InitPipelineContext /\ [][NextPipelineContext]_vars

(***************************************************************************)
(* retry.py: RetryPolicy, RetryResult                                      *)
(***************************************************************************)
DefaultMaxRetries == 3
DefaultTimeoutSeconds == 30
DefaultBackoffSeconds == 0

\* the model validates no field beyond its type: max_retries is any int
RetryPolicy(max_retries, timeout_seconds, backoff_seconds, abort_on) ==
    [max_retries |-> max_retries, timeout_seconds |-> timeout_seconds,
     backoff_seconds |-> backoff_seconds, abort_on |-> abort_on]

\* RetryPolicy(): every field at its default
DefaultRetryPolicy ==
    RetryPolicy(DefaultMaxRetries, DefaultTimeoutSeconds,
                DefaultBackoffSeconds, {})

\* result and error are optional: None is the empty set
RetryResult(success, attempts, result, error) ==
    [success |-> success, attempts |-> attempts, result |-> result,
     error |-> error]

(***************************************************************************)
(* The operation fn.  It may keep state between its calls, as the flaky    *)
(* callables of tests/test_retry.py do, so it is the sequence of what its  *)
(* first, second, ... call does: return a value, or raise an exception of  *)
(* some class with some str().                                             *)
(***************************************************************************)
FnReturn(value) == [raised |-> None, value |-> {value}, message |-> <<>>]
FnRaise(kind, message) == [raised |-> kind, value |-> {}, message |-> message]

FnOutcomes ==
    {FnReturn("ok"), FnRaise("RuntimeError", <<"not yet">>),
     FnRaise("ValueError", <<"fatal">>)}

\* the k-th call of fn()
CallFn(fn, k) == fn[k]

(***************************************************************************)
(* run_with_retry                                                          *)
(***************************************************************************)
\* p = policy or RetryPolicy()
PolicyOrDefault(policy) ==
    IF policy = {} THEN DefaultRetryPolicy ELSE CHOOSE p \in policy : TRUE

\* a success that reports one attempt less
RetrySuccessMut(attempt, value) ==
    RetryResult(TRUE, attempt - 1, value, {})

\* line 60: return RetryResult(success=True, attempts=attempt, result=value)
RetrySuccess(attempt, value) == RetryResult(TRUE, attempt, value, {})

\* an abort list that is never consulted
AbortsOnMut(p, exc_name) == FALSE

\* lines 63-64: exc_name = type(exc).__name__; if exc_name in p.abort_on
AbortsOn(p, exc_name) == exc_name \in p.abort_on

\* lines 65-67: the result of an aborted run
RetryAborted(attempt, last_error) ==
    RetryResult(FALSE, attempt, {}, {<<"Aborted: ">> \o last_error})

\* an exhausted run that reports no error
RetryExhaustedMut(p, last_error) ==
    RetryResult(FALSE, p.max_retries, {}, {})

\* lines 71-75: the result once the loop is over
RetryExhausted(p, last_error) ==
    RetryResult(FALSE, p.max_retries, {}, last_error)

\* the locals of the loop and its effects: calls of fn made, time.sleep calls
RetryState(invoked, sleeps, last_error) ==
    [invoked |-> invoked, sleeps |-> sleeps, last_error |-> last_error]

RetryReturn(result, st) ==
    [raised |-> None, result |-> {result}, invoked |-> st.invoked,
     sleeps |-> st.sleeps]

RECURSIVE RetryLoop(_, _, _, _)
\* for attempt in range(1, p.max_retries + 1), from this attempt on
RetryLoop(fn, p, attempt, st) ==
    IF attempt > p.max_retries
    THEN RetryReturn(RetryExhausted(p, st.last_error), st)
    ELSE LET call == CallFn(fn, st.invoked + 1)
             made == RetryState(st.invoked + 1, st.sleeps, st.last_error)
         IN  IF call.raised = None
             THEN RetryReturn(RetrySuccess(attempt, call.value), made)
             ELSE LET failed == RetryState(made.invoked, made.sleeps,
                                           {call.message})
                  IN  IF AbortsOn(p, call.raised)
                      THEN RetryReturn(RetryAborted(attempt, call.message),
                                       failed)
                      ELSE IF attempt < p.max_retries /\ p.backoff_seconds > 0
                      THEN RetryLoop(fn, p, attempt + 1,
                               RetryState(failed.invoked,
                                          Append(failed.sleeps,
                                                 p.backoff_seconds),
                                          failed.last_error))
                      ELSE RetryLoop(fn, p, attempt + 1, failed)

run_with_retry(fn, policy) ==
    RetryLoop(fn, PolicyOrDefault(policy), 1, RetryState(0, <<>>, {}))

(***************************************************************************)
(* Retry calls.  The caller holds one operation (retryCall.fn), drawn when *)
(* the model starts, and runs it under any policy, a fresh copy each time. *)
(***************************************************************************)
Fns == [1..(MaxRetries + 1) -> FnOutcomes]

ExceptionNames == {"RuntimeError", "ValueError"}
Backoffs == {-1, 0, 1}

RetryPolicies ==
    {RetryPolicy(n, DefaultTimeoutSeconds, b, a) :
        n \in -1..MaxRetries, b \in Backoffs, a \in SUBSET ExceptionNames}

RetryCall(op, fn, policy, out) ==
    [op |-> op, fn |-> fn, policy |-> policy, raised |-> out.raised,
     result |-> out.result, invoked |-> out.invoked, sleeps |-> out.sleeps]

NoRetry == [raised |-> None, result |-> {}, invoked |-> 0, sleeps |-> <<>>]

\* run_with_retry(fn, policy)
RunWithRetry(policy) ==
    /\ retryCall' = RetryCall("run", retryCall.fn, {policy},
                              run_with_retry(retryCall.fn, {policy}))
    /\ UNCHANGED <<clock, registryVars, historyVars, runtimeVars,
                   pipelineVars, routerVars, permVars>>

\* run_with_retry(fn)
RunWithDefaultPolicy ==
    /\ retryCall' = RetryCall("run", retryCall.fn, {},
                              run_with_retry(retryCall.fn, {}))
    /\ UNCHANGED <<clock, registryVars, historyVars, runtimeVars,
                   pipelineVars, routerVars, permVars>>

InitRetry ==
    /\ retryCall \in {RetryCall("none", fn, {}, NoRetry) : fn \in Fns}
    /\ clock = 0
    /\ agentReg = EmptyDict
    /\ toolReg = EmptyDict
    /\ regCall = NoCall
    /\ toolCall = NoCall
    /\ agentLog = {}
    /\ toolLog = {}
    /\ rtAgents = EmptyDict
    /\ rtCall = NoCall
    /\ lastToggle = EmptyDict
    /\ plHandlers = EmptyDict
    /\ plCall = NoCall
    /\ plContexts = EmptyDict
    /\ rtrRules = <<>>
    /\ rtrAddedBefore = {}
    /\ rtrCall = NoCall
    /\ permCall = NoCall

NextRetry ==
    \/ \E policy \in RetryPolicies : RunWithRetry(policy)
    \/ RunWithDefaultPolicy

SpecRetry == InitRetry /\ [][NextRetry]_vars

(***************************************************************************)
(* contracts/routing.py                                                    *)
(***************************************************************************)
\* target_agent is optional: None is the empty set
RoutingRule(rule_id, match_strategy, match_value, target_persona, target_agent, priority, enabled) ==
    [rule_id |-> rule_id, match_strategy |-> match_strategy,
     match_value |-> match_value, target_persona |-> target_persona,
     target_agent |-> target_agent, priority |-> priority,
     enabled |-> enabled]

\* rule_id, target_persona and target_agent are optional
RoutingResult(matched, rule_id, target_persona, target_agent) ==
    [matched |-> matched, rule_id |-> rule_id,
     target_persona |-> target_persona, target_agent |-> target_agent]

(***************************************************************************)
(* Text.  A str is the sequence of its characters.                         *)
(***************************************************************************)
\* str.lower() on one character
LowerChar(c) ==
    CASE c = "A" -> "a"
      [] c = "B" -> "b"
      [] c = "C" -> "c"
      [] OTHER -> c

\* s.lower()
Lower(s) == [i \in 1..Len(s) |-> LowerChar(s[i])]

\* x in y, for two str
IsSubstring(x, y) ==
    \E i \in 0..(Len(y) - Len(x)) : SubSeq(y, i + 1, i + Len(x)) = x

(***************************************************************************)
(* Regular expressions, for the patterns made of literal characters, the   *)
(* alternation "|" and the group opener "(": re.search compiles the        *)
(* pattern, which fails on an unterminated "(", and then looks for an      *)
(* occurrence of one of the alternatives.                                  *)
(***************************************************************************)
RECURSIVE SplitAlternatives(_)
\* the alternatives of a pattern: its pieces between the "|"
SplitAlternatives(pattern) ==
    IF \A i \in 1..Len(pattern) : pattern[i] # "|"
    THEN {pattern}
    ELSE LET i == CHOOSE i \in 1..Len(pattern) :
                     /\ pattern[i] = "|"
                     /\ \A j \in 1..(i - 1) : pattern[j] # "|"
         IN  {SubSeq(pattern, 1, i - 1)}
                \cup SplitAlternatives(SubSeq(pattern, i + 1, Len(pattern)))

\* re.compile(pattern): re.error for "missing ), unterminated subpattern"
CompileFails(pattern) == \E i \in 1..Len(pattern) : pattern[i] = "("

\* re.search(pattern, string, re.IGNORECASE) is not None
ReSearchIgnoreCase(pattern, string) ==
    \E alt \in SplitAlternatives(pattern) :
        IsSubstring(Lower(alt), Lower(string))

(***************************************************************************)
(* IntentRouter                                                            *)
(***************************************************************************)
\* _matches(rule, intent): the bool returned, or the exception raised
IntentRouter_matches(rule, intent) ==
    IF rule.match_strategy = "keyword"
    THEN [raised |-> None,
          value |-> IsSubstring(Lower(rule.match_value), Lower(intent))]
    ELSE IF rule.match_strategy = "pattern"
    THEN IF CompileFails(rule.match_value)
         THEN [raised |-> "re.error", value |-> FALSE]
         ELSE [raised |-> None,
               value |-> ReSearchIgnoreCase(rule.match_value, intent)]
    ELSE [raised |-> None, value |-> FALSE]

\* a duplicate test that nothing passes
IsDuplicateMut(rules, rule) == FALSE

\* line 25: any(r.rule_id == rule.rule_id for r in self._rules)
IsDuplicate(rules, rule) ==
    \E i \in 1..Len(rules) : rules[i].rule_id = rule.rule_id

IntentRouter_add_rule(rules, rule) ==
    IF IsDuplicate(rules, rule)
    THEN [rules |-> rules, raised |-> "ValueError"]
    ELSE [rules |-> Append(rules, rule), raised |-> None]

IntentRouter_remove_rule(rules, rule_id) ==
    LET before == Len(rules)
        kept   == SelectSeq(rules, LAMBDA r : r.rule_id # rule_id)
    IN  [rules |-> kept, ret |-> Len(kept) < before]

\* key=lambda r: -r.priority
SortKey(r) == 0 - r.priority

\* a sort that puts a rule before the rules of the same key
InsertSortedMut(sorted, r) ==
    LET n == Cardinality({i \in 1..Len(sorted) : SortKey(sorted[i]) < SortKey(r)})
    IN  SubSeq(sorted, 1, n) \o <<r>> \o SubSeq(sorted, n + 1, Len(sorted))

\* sorted() is stable: a rule goes after the rules whose key is not greater
InsertSorted(sorted, r) ==
    LET n == Cardinality({i \in 1..Len(sorted) : SortKey(sorted[i]) <= SortKey(r)})
    IN  SubSeq(sorted, 1, n) \o <<r>> \o SubSeq(sorted, n + 1, Len(sorted))

RECURSIVE SortedByKey(_, _)
\* sorted(rules, key=...), the first n rules taken in their order
SortedByKey(rules, n) ==
    IF n = 0 THEN <<>>
    ELSE InsertSorted(SortedByKey(rules, n - 1), rules[n])

IntentRouter_list_rules(rules) == SortedByKey(rules, Len(rules))

\* a loop that does not skip the disabled rules
SkipsRuleMut(rule) == FALSE

\* lines 54-55: if not rule.enabled: continue
SkipsRule(rule) == ~rule.enabled

RECURSIVE RouteLoop(_, _, _)
\* for rule in self.list_rules(), from the i-th rule on
RouteLoop(listed, i, intent) ==
    IF i > Len(listed)
    THEN [raised |-> None, result |-> {RoutingResult(FALSE, {}, {}, {})}]
    ELSE LET rule == listed[i] IN
         IF SkipsRule(rule)
         THEN RouteLoop(listed, i + 1, intent)
         ELSE LET m == IntentRouter_matches(rule, intent) IN
              IF m.raised # None
              THEN [raised |-> m.raised, result |-> {}]
              ELSE IF m.value
              THEN [raised |-> None,
                    result |-> {RoutingResult(TRUE, {rule.rule_id},
                                              {rule.target_persona},
                                              rule.target_agent)}]
              ELSE RouteLoop(listed, i + 1, intent)

IntentRouter_route(rules, intent) ==
    RouteLoop(IntentRouter_list_rules(rules), 1, intent)

(***************************************************************************)
(* Router calls.  The rules are those of tests/test_intent_router.py in    *)
(* small: a keyword, a pattern of two alternatives and a pattern that is   *)
(* no regular expression, at two priorities, enabled or not.               *)
(***************************************************************************)
RuleIds == {"r1", "r2", "r3"}
Priorities == {1, 100}

Keyword    == <<"keyword", <<"a", "b">>>>
Pattern    == <<"pattern", <<"c", "|", "d">>>>
BadPattern == <<"pattern", <<"(">>>>

\* the ways a rule of this id matches
Matchers(rule_id) ==
    CASE rule_id = "r1" -> {Keyword, Pattern}
      [] rule_id = "r2" -> {Keyword, BadPattern}
      [] OTHER -> {Pattern}

\* the target of a rule goes with its id
TargetPersona(rule_id) ==
    CASE rule_id = "r1" -> "core" [] rule_id = "r2" -> "infra" [] OTHER -> "docs"

TargetAgent(rule_id) == IF rule_id = "r2" THEN {"compiler-agent"} ELSE {}

RulesOf(id) ==
    {RoutingRule(id, m[1], m[2], TargetPersona(id), TargetAgent(id), p, e) :
        m \in Matchers(id), p \in Priorities, e \in BOOLEAN}

Rules == UNION {RulesOf(id) : id \in RuleIds}

Intents ==
    {<<"A", "B">>, <<"x", "C">>, <<"a", "b", "d">>, <<"x">>}

RtrCall(op, rule_id, intent, raised, removed, result, listed) ==
    [op |-> op, rule_id |-> rule_id, intent |-> intent, raised |-> raised,
     removed |-> removed, result |-> result, listed |-> listed]

\* router.add_rule(rule)
AddRule(rule) ==
    LET out == IntentRouter_add_rule(rtrRules, rule) IN
    /\ rtrRules' = out.rules
    /\ rtrCall' = RtrCall("add_rule", {rule.rule_id}, {}, out.raised, FALSE,
                          {}, <<>>)
    /\ rtrAddedBefore' =
          IF out.raised # None
          THEN rtrAddedBefore
          ELSE {pr \in rtrAddedBefore :
                   pr[1] # rule.rule_id /\ pr[2] # rule.rule_id}
               \cup {<<rtrRules[i].rule_id, rule.rule_id>> :
                        i \in 1..Len(rtrRules)}
    /\ UNCHANGED <<clock, registryVars, historyVars, runtimeVars,
                   pipelineVars, retryVars, permVars>>

\* router.remove_rule(rule_id)
RemoveRule(rule_id) ==
    LET out == IntentRouter_remove_rule(rtrRules, rule_id) IN
    /\ rtrRules' = out.rules
    /\ rtrCall' = RtrCall("remove_rule", {rule_id}, {}, None, out.ret, {},
                          <<>>)
    /\ UNCHANGED <<rtrAddedBefore, clock, registryVars, historyVars,
                   runtimeVars, pipelineVars, retryVars, permVars>>

\* router.list_rules()
ListRules ==
    /\ rtrCall' = RtrCall("list_rules", {}, {}, None, FALSE, {},
                          IntentRouter_list_rules(rtrRules))
    /\ UNCHANGED <<rtrRules, rtrAddedBefore, clock, registryVars,
                   historyVars, runtimeVars, pipelineVars, retryVars,
                   permVars>>

\* router.route(intent)
Route(intent) ==
    LET out == IntentRouter_route(rtrRules, intent) IN
    /\ rtrCall' = RtrCall("route", {}, {intent}, out.raised, FALSE,
                          out.result, <<>>)
    /\ UNCHANGED <<rtrRules, rtrAddedBefore, clock, registryVars,
                   historyVars, runtimeVars, pipelineVars, retryVars,
                   permVars>>

InitRouter ==
    /\ rtrRules = <<>>
    /\ rtrCall = RtrCall("init", {}, {}, None, FALSE, {}, <<>>)
    /\ rtrAddedBefore = {}
    /\ clock = 0
    /\ agentReg = EmptyDict
    /\ toolReg = EmptyDict
    /\ regCall = NoCall
    /\ toolCall = NoCall
    /\ agentLog = {}
    /\ toolLog = {}
    /\ rtAgents = EmptyDict
    /\ rtCall = NoCall
    /\ lastToggle = EmptyDict
    /\ plHandlers = EmptyDict
    /\ plCall = NoCall
    /\ plContexts = EmptyDict
    /\ retryCall = NoCall
    /\ permCall = NoCall

NextRouter ==
    \/ \E rule \in Rules : AddRule(rule)
    \/ \E rule_id \in RuleIds : RemoveRule(rule_id)
    \/ ListRules
    \/ \E intent \in Intents : Route(intent)

SpecRouter == InitRouter /\ [][NextRouter]_vars

(***************************************************************************)
(* tools/permissions.py                                                    *)
(***************************************************************************)
\* three members of the Permission enum, by their values
Permissions == {"READ_FS", "WRITE_FS", "EXEC_SHELL"}

\* the order of the values as str: what sorted() compares
PermissionRank(value) ==
    CASE value = "EXEC_SHELL" -> 1
      [] value = "READ_FS" -> 2
      [] value = "WRITE_FS" -> 3

\* the two lists of a tool, in the order the tool declares them
ToolPermissions(required_permissions, optional_permissions) ==
    [required_permissions |-> required_permissions,
     optional_permissions |-> optional_permissions]

\* the checker reads the two lists of a policy through set() and "in" only
AgentPolicy(persona, allowed_permissions, allowed_tools) ==
    [persona |-> persona, allowed_permissions |-> allowed_permissions,
     allowed_tools |-> allowed_tools]

PolicyDecision(allowed, reason) == [allowed |-> allowed, reason |-> reason]

(***************************************************************************)
(* tool_permission_checker.py                                              *)
(***************************************************************************)
\* an allowlist test that forgets that an empty list allows every tool
OutsideAllowlistMut(policy, tool_name) ==
    tool_name \notin policy.allowed_tools

\* line 36: policy.allowed_tools and tool_name not in policy.allowed_tools
OutsideAllowlist(policy, tool_name) ==
    policy.allowed_tools # {} /\ tool_name \notin policy.allowed_tools

\* line 39: the f-string, as its pieces
AllowlistReason(policy, tool_name) ==
    <<"Tool '", tool_name, "' is not in the allowlist for persona '",
      policy.persona, "'">>

\* a check that asks for the optional permissions too
MissingPermissionsMut(policy, tool_permissions) ==
    SelectSeq(tool_permissions.required_permissions
                 \o tool_permissions.optional_permissions,
              LAMBDA perm : perm \notin policy.allowed_permissions)

\* lines 43-48: [p.value for p in required_permissions if p not in allowed_set]
MissingPermissions(policy, tool_permissions) ==
    SelectSeq(tool_permissions.required_permissions,
              LAMBDA perm : perm \notin policy.allowed_permissions)

\* one more value put at its place in a sorted list
InsertValue(sorted, value) ==
    LET n == Cardinality({i \in 1..Len(sorted) :
                             PermissionRank(sorted[i]) <= PermissionRank(value)})
    IN  SubSeq(sorted, 1, n) \o <<value>> \o SubSeq(sorted, n + 1, Len(sorted))

RECURSIVE SortedValues(_, _)
\* sorted(missing), the first n values taken
SortedValues(values, n) ==
    IF n = 0 THEN <<>>
    ELSE InsertValue(SortedValues(values, n - 1), values[n])

RECURSIVE JoinComma(_)
\* ', '.join(values), as its pieces
JoinComma(values) ==
    IF Len(values) = 0 THEN <<>>
    ELSE IF Len(values) = 1 THEN values
    ELSE <<Head(values), ", ">> \o JoinComma(Tail(values))

\* line 52: the f-string, as its pieces
MissingReason(missing) ==
    <<"Missing required permissions: ">>
        \o JoinComma(SortedValues(missing, Len(missing)))

check_tool_permission(policy, tool_permissions, tool_name) ==
    IF OutsideAllowlist(policy, tool_name)
    THEN PolicyDecision(FALSE, AllowlistReason(policy, tool_name))
    ELSE LET missing == MissingPermissions(policy, tool_permissions) IN
         IF missing # <<>>
         THEN PolicyDecision(FALSE, MissingReason(missing))
         ELSE PolicyDecision(TRUE, <<"All checks passed">>)

(***************************************************************************)
(* Permission checks.  The caller holds a policy, the permissions of a     *)
(* tool and a tool name, drawn when the model starts, and asks.            *)
(***************************************************************************)
Personas == {"core", "docs"}
ToolNames == {"safe_tool", "evil_tool"}

PermissionLists(n) == UNION {[1..k -> Permissions] : k \in 0..n}

AgentPolicies ==
    {AgentPolicy(persona, ap, at) :
        persona \in Personas, ap \in SUBSET Permissions,
        at \in SUBSET ToolNames}

ToolPermissionsValues ==
    {ToolPermissions(req, opt) :
        req \in PermissionLists(MaxRequired),
        opt \in PermissionLists(MaxOptional)}

PermCall(op, policy, tool_permissions, tool_name, decision) ==
    [op |-> op, policy |-> policy, tool_permissions |-> tool_permissions,
     tool_name |-> tool_name, decision |-> decision]

\* check_tool_permission(policy, tool_permissions, tool_name)
CheckToolPermission ==
    /\ permCall' =
          PermCall("check", permCall.policy, permCall.tool_permissions,
                   permCall.tool_name,
                   {check_tool_permission(permCall.policy,
                                          permCall.tool_permissions,
                                          permCall.tool_name)})
    /\ UNCHANGED <<clock, registryVars, historyVars, runtimeVars,
                   pipelineVars, retryVars, routerVars>>

InitPermission ==
    /\ permCall \in {PermCall("none", policy, tp, tool_name, {}) :
                        policy \in AgentPolicies,
                        tp \in ToolPermissionsValues,
                        tool_name \in ToolNames}
    /\ clock = 0
    /\ agentReg = EmptyDict
    /\ toolReg = EmptyDict
    /\ regCall = NoCall
    /\ toolCall = NoCall
    /\ agentLog = {}
    /\ toolLog = {}
    /\ rtAgents = EmptyDict
    /\ rtCall = NoCall
    /\ lastToggle = EmptyDict
    /\ plHandlers = EmptyDict
    /\ plCall = NoCall
    /\ plContexts = EmptyDict
    /\ retryCall = NoCall
    /\ rtrRules = <<>>
    /\ rtrAddedBefore = {}
    /\ rtrCall = NoCall

NextPermission == CheckToolPermission

SpecPermission == InitPermission /\ [][NextPermission]_vars

(***************************************************************************)
(* Properties of the registries                                            *)
(***************************************************************************)
\* the call registers a spec for a name stored with the same version
SameVersionCall(call) ==
    /\ call.op = "register"
    /\ call.prev # {}
    /\ \A r \in call.prev, s \in call.spec : r.spec.version = s.version

\* ... and the spec is the stored one
SameSpecCall(call) == \A r \in call.prev, s \in call.spec : r.spec = s

\* C1 as stated: over any sequence of register, set_enabled and remove calls,
\* any two successful register calls with the same name and the same version
\* carried equal specs (a (name, version) pair denotes one spec for ever).
C1_OneSpecPerNameVersionForEver ==
    /\ \A s1, s2 \in agentLog :
          (s1.agent_name = s2.agent_name /\ s1.version = s2.version) => s1 = s2
    /\ \A s1, s2 \in toolLog :
          (s1.tool_name = s2.tool_name /\ s1.version = s2.version) => s1 = s2

\* C1 amended: a register call for a name that is stored with the same
\* version succeeds only with a spec equal to the stored one, and then it
\* changes nothing; so a (name, version) pair denotes one spec for as long as
\* the name stays registered under that version.
C1_StoredVersionIsImmutable ==
    [][ /\ (SameVersionCall(regCall') /\ regCall'.raised = None)
            => (SameSpecCall(regCall') /\ agentReg' = agentReg)
        /\ (SameVersionCall(toolCall') /\ toolCall'.raised = None)
            => (SameSpecCall(toolCall') /\ toolReg' = toolReg) ]_vars

\* a register call succeeded on a name stored with the same version, after
\* the name had been registered under two versions
C1_Witness ==
    /\ SameVersionCall(regCall) /\ regCall.raised = None
    /\ SameVersionCall(toolCall) /\ toolCall.raised = None
    /\ \E s1, s2 \in agentLog :
          s1.agent_name = regCall.name /\ s2.agent_name = regCall.name
          /\ s1.version # s2.version

\* C2: register for a name stored with the same version (both unversioned
\* included) and a different body raises the conflict error, which names the
\* version, and leaves the whole registry as it was: the stored spec, its
\* enabled flag, its created_at and every other entry.
C2_ConflictLeavesRegistryUnchanged ==
    [][ /\ (SameVersionCall(regCall') /\ ~SameSpecCall(regCall'))
            => /\ regCall'.raised = "ValueError"
               /\ \A s \in regCall'.spec :
                     regCall'.msg = <<s.agent_name, AgentVersionStr(s.version)>>
               /\ regCall'.ret = {}
               /\ agentReg' = agentReg
        /\ (SameVersionCall(toolCall') /\ ~SameSpecCall(toolCall'))
            => /\ toolCall'.raised = "ValueError"
               /\ \A s \in toolCall'.spec :
                     toolCall'.msg = <<s.tool_name, ToolVersionStr(s.version)>>
               /\ toolCall'.ret = {}
               /\ toolReg' = toolReg ]_vars

\* a conflict on an unversioned, disabled entry registered at an earlier time,
\* with another entry in the registry
C2_Witness ==
    /\ regCall.raised = "ValueError" /\ toolCall.raised = "ValueError"
    /\ \A s \in regCall.spec : s.version = None
    /\ \A r \in regCall.prev : ~r.enabled /\ r.created_at < clock
    /\ Cardinality(DOMAIN agentReg) = 2
    /\ Cardinality(DOMAIN toolReg) = 2

(***************************************************************************)
(* Properties of the runtime                                               *)
(***************************************************************************)
RunCtx == CHOOSE c \in rtCall.ctx : TRUE

\* the result is status=error, output null, exactly one error of this code
IsErrorResult(result, code) ==
    /\ Cardinality(result) = 1
    /\ \A r \in result :
          /\ r.status = "error"
          /\ r.output = None
          /\ Len(r.errors) = 1
          /\ r.errors[1].code = code

Disabled(reg, name) == name \in DOMAIN reg /\ ~reg[name].enabled

\* C3: run(ctx) returns status=error, output null and exactly one error
\* AGENT_NOT_FOUND, invokes no handler and raises nothing whenever ctx.agent
\* is not in the handler map or its registry entry is disabled; and the
\* handler of a name in the map is invoked exactly when the last
\* enable_agent / disable_agent call for the name (that returned) was
\* enable_agent, or there was none.
C3_NotFoundOrDisabled ==
    rtCall.op = "run" =>
        /\ rtCall.raised = None
        /\ (RunCtx.agent \notin DOMAIN rtAgents \/ Disabled(agentReg, RunCtx.agent))
              => /\ IsErrorResult(rtCall.result, "AGENT_NOT_FOUND")
                 /\ rtCall.invoked = <<>>
        /\ rtCall.invoked # <<>>
              <=> /\ RunCtx.agent \in DOMAIN rtAgents
                  /\ DictGet(lastToggle, RunCtx.agent) # {"disable_agent"}
        /\ rtCall.invoked # <<>> => rtCall.invoked = <<rtAgents[RunCtx.agent]>>

\* a run on a disabled agent whose handler is in the map
C3_Witness ==
    /\ rtCall.op = "run"
    /\ RunCtx.agent \in DOMAIN rtAgents
    /\ Disabled(agentReg, RunCtx.agent)
    /\ DictGet(lastToggle, RunCtx.agent) = {"disable_agent"}
    /\ rtCall.invoked = <<>>
    /\ agentReg[RunCtx.agent].created_at < clock

\* C4: when the handler that run resolved raises, nothing escapes: run
\* returns status=error, output null, trace_id and agent of the context and
\* exactly one error RUNTIME_ERROR with the exception's message; also for a
\* handler that was put into the map directly and never registered.
C4_HandlerExceptionIsCaught ==
    (rtCall.op = "run" /\ rtCall.invoked # <<>>
        /\ Execute(rtCall.invoked[1], RunCtx).raised # None)
    => /\ rtCall.raised = None
       /\ rtCall.result =
            {RuntimeResult("error", RunCtx.trace_id, RunCtx.agent, None,
               << RuntimeError("RUNTIME_ERROR",
                               Execute(rtCall.invoked[1], RunCtx).message,
                               {}) >>)}

\* the raising handler was put into the map directly: its registry entry was
\* created by this run
C4_Witness ==
    /\ rtCall.op = "run"
    /\ rtCall.invoked # <<>>
    /\ rtCall.invoked[1].cls = "FailingAgent"
    /\ rtCall.backfilled
    /\ RunCtx.trace_id = "custom-789"

\* C5: a runtime can be configured with a safety gate, and when the gate
\* denies a request for a registered, enabled agent, run returns
\* status=error with exactly one error VALIDATION_ERROR and the handler is
\* not invoked.
C5_SafetyGateDenyBlocksHandler ==
    /\ (rtCall.op = "init" /\ rtCall.gate = "DenyGate") => rtCall.raised = None
    /\ (rtCall.op = "run" /\ rtCall.gate = "DenyGate"
           /\ RunCtx.agent \in DOMAIN rtAgents
           /\ ~Disabled(agentReg, RunCtx.agent))
        => /\ IsErrorResult(rtCall.result, "VALIDATION_ERROR")
           /\ rtCall.invoked = <<>>

\* the runtime that differs only in that agent name is not registered at all
WithoutAgent(d, name) == DictPop(d, name)

CtxsFor(name) ==
    {RuntimeContext(name, input, trace_id) :
        input \in Inputs, trace_id \in TraceIds}

\* C6 as stated: for an agent that is registered but disabled, run returns
\* the very result it returns on the runtime where the agent is not
\* registered: same status, output, error code, error message and details.
C6_DisabledEqualsAbsent ==
    \A name \in DOMAIN rtAgents : Disabled(agentReg, name) =>
        \A ctx \in CtxsFor(name) :
            AgentRuntime_run(rtAgents, agentReg, clock, ctx).result
            = AgentRuntime_run(WithoutAgent(rtAgents, name),
                               WithoutAgent(agentReg, name), clock, ctx).result

\* a result with the message of its errors left out
WithoutMessage(result) ==
    {[status |-> r.status, trace_id |-> r.trace_id, agent |-> r.agent,
      output |-> r.output,
      errors |-> [i \in 1..Len(r.errors) |->
                     [code |-> r.errors[i].code,
                      details |-> r.errors[i].details]]] : r \in result}

\* C6 amended: the two results agree in status, trace id, agent, output,
\* error code and error details, and no handler runs in either case; the
\* error messages differ ("not found" against "is not available").
C6_DisabledEqualsAbsentButMessage ==
    \A name \in DOMAIN rtAgents : Disabled(agentReg, name) =>
        \A ctx \in CtxsFor(name) :
            LET dis == AgentRuntime_run(rtAgents, agentReg, clock, ctx)
                abs == AgentRuntime_run(WithoutAgent(rtAgents, name),
                                        WithoutAgent(agentReg, name), clock, ctx)
            IN  /\ WithoutMessage(dis.result) = WithoutMessage(abs.result)
                /\ IsErrorResult(dis.result, "AGENT_NOT_FOUND")
                /\ dis.invoked = <<>> /\ abs.invoked = <<>>
                /\ dis.raised = None /\ abs.raised = None
                /\ dis.result # abs.result

\* run has just answered for a disabled agent
C6_Witness ==
    /\ rtCall.op = "run"
    /\ RunCtx.agent \in DOMAIN rtAgents
    /\ Disabled(agentReg, RunCtx.agent)
    /\ rtCall.result = {AgentNotAvailable(RunCtx)}

(***************************************************************************)
(* Properties of the pipeline runner                                       *)
(***************************************************************************)
Ran == plCall.op = "run" /\ plCall.result # {}

RanResult == CHOOSE r \in plCall.result : TRUE
RanSteps  == plCall.spec.steps
RanCount  == Len(RanResult.step_results)

\* the stop rule of the spec: halt after an enabled step of this status
HaltsAfter(step, status) ==
    /\ step.enabled
    /\ \/ step.stop_condition = "always"
       \/ step.stop_condition = "on_error" /\ status = "failed"
       \/ step.stop_condition = "on_success" /\ status = "completed"

\* the handler of the step is registered and raises when called
Raises(handlers, step) ==
    /\ step.enabled
    /\ step.handler \in DOMAIN handlers
    /\ CallHandler(handlers[step.handler]).raised # None

Missing(handlers, step) ==
    step.enabled /\ step.handler \notin DOMAIN handlers

\* the recorded steps are the first steps of the spec, in order
ResultsArePrefix ==
    /\ RanCount <= Len(RanSteps)
    /\ \A i \in 1..RanCount :
          RanResult.step_results[i].step_name = RanSteps[i].step_name

\* C7: the run halts after an enabled step exactly when its stop_condition
\* is always, or on_error and the step failed, or on_success and the step
\* completed (never lets the run go on); after a halt no later handler is
\* invoked and no later step is in step_results.
C7_StopRule ==
    plCall.op = "run" =>
        /\ Ran /\ ResultsArePrefix
        /\ \A i \in 1..RanCount :
              HaltsAfter(RanSteps[i], RanResult.step_results[i].status)
                 => i = RanCount
        /\ RanCount < Len(RanSteps) =>
              /\ RanCount >= 1
              /\ HaltsAfter(RanSteps[RanCount],
                            RanResult.step_results[RanCount].status)
        /\ \A i \in 1..RanCount :
              (RanSteps[i].enabled /\ RanSteps[i].stop_condition = "never")
                 => (i < RanCount \/ i = Len(RanSteps))
        /\ \A k \in 1..Len(plCall.invoked) :
              \E i \in 1..RanCount : plCall.invoked[k] = RanSteps[i].step_name
        /\ \A i \in 1..RanCount :
              (RanSteps[i].enabled /\ RanSteps[i].handler \in DOMAIN plCall.handlers)
                 <=> (\E k \in 1..Len(plCall.invoked) :
                         plCall.invoked[k] = RanSteps[i].step_name)

\* a run that halted after its first step, whose handler completed, with a
\* second step that is enabled and has a registered handler
C7_Witness ==
    /\ Ran
    /\ Len(RanSteps) = 2 /\ RanCount = 1
    /\ RanSteps[1].stop_condition = "on_success"
    /\ RanResult.step_results[1].status = "completed"
    /\ RanSteps[2].enabled /\ RanSteps[2].handler \in DOMAIN plCall.handlers
    /\ plCall.invoked = <<"s1">>

\* C8: the status of the PipelineResult is failed if and only if a step
\* result has status failed and completed otherwise (the empty pipeline and
\* the pipeline of skipped steps included); step_results holds at most one
\* result per declared step, in declared order: a prefix of the steps.
C8_OverallStatus ==
    plCall.op = "run" =>
        /\ Ran /\ ResultsArePrefix
        /\ RanResult.status \in {"failed", "completed"}
        /\ RanResult.status = "failed"
              <=> \E i \in 1..RanCount :
                     RanResult.step_results[i].status = "failed"
        /\ RanResult.pipeline_name = plCall.spec.pipeline_name

\* a failed step followed by a completed one: the status stays failed
C8_Witness ==
    /\ Ran
    /\ RanCount = 2
    /\ RanResult.step_results[1].status = "failed"
    /\ RanResult.step_results[2].status = "completed"
    /\ RanResult.status = "failed"

\* C9: a step handler that raises does not make run raise: run returns a
\* PipelineResult, the step is recorded as failed with the exception's
\* message as error, and the overall status is failed.
C9_RaisingHandlerIsRecorded ==
    plCall.op = "run" =>
        /\ plCall.raised = None
        /\ Ran
        /\ \A i \in 1..Len(RanSteps) :
              (Raises(plCall.handlers, RanSteps[i])
               /\ \E k \in 1..Len(plCall.invoked) :
                     plCall.invoked[k] = RanSteps[i].step_name)
              => /\ i <= RanCount
                 /\ RanResult.step_results[i] =
                       StepResult(RanSteps[i].step_name, "failed", {},
                          CallHandler(plCall.handlers[RanSteps[i].handler]).message)
                 /\ RanResult.status = "failed"

\* the handler of the second step raised, after a first step that completed
C9_Witness ==
    /\ Ran
    /\ RanCount = 2
    /\ RanResult.step_results[1].status = "completed"
    /\ Raises(plCall.handlers, RanSteps[2])
    /\ RanResult.step_results[2].error = {<<"boom">>}

\* C10: an enabled step whose handler is not registered is recorded as
\* failed with a "no handler registered" error and makes the overall status
\* failed, and the run halts after it for on_error and always and goes on
\* for on_success and never, as it does after a handler that raised.
C10_MissingHandler ==
    plCall.op = "run" =>
        /\ Ran /\ ResultsArePrefix
        /\ \A i \in 1..RanCount :
              Missing(plCall.handlers, RanSteps[i])
              => /\ RanResult.step_results[i] =
                       StepResult(RanSteps[i].step_name, "failed", {},
                                  {NoHandlerError(RanSteps[i].handler)})
                 /\ RanResult.status = "failed"
        /\ \A i \in 1..RanCount :
              (Missing(plCall.handlers, RanSteps[i])
               \/ Raises(plCall.handlers, RanSteps[i]))
              => /\ RanSteps[i].stop_condition \in {"on_error", "always"}
                    => RanCount = i
                 /\ (RanSteps[i].stop_condition \in {"on_success", "never"}
                     /\ i < Len(RanSteps))
                    => RanCount > i

\* a missing handler under on_success, and the run went on to the next step
C10_Witness ==
    /\ Ran
    /\ RanCount = 2
    /\ Missing(plCall.handlers, RanSteps[1])
    /\ RanSteps[1].stop_condition = "on_success"
    /\ RanResult.step_results[2].status = "completed"

\* the spec without its disabled steps
IsEnabledStep(step) == step.enabled

EnabledOnly(spec) ==
    [pipeline_name |-> spec.pipeline_name,
     steps |-> SelectSeq(spec.steps, IsEnabledStep)]

IsNotSkipped(result) == result.status # "skipped"

\* C11: a step with enabled=false is recorded as skipped with neither
\* output nor error, its handler is not invoked, and the run goes on to the
\* next declared step whatever the step's stop_condition is; the skipped
\* steps change nothing else: the overall status, the other step results
\* and the handlers invoked are those of the run of the same spec with the
\* disabled steps taken out.
C11_DisabledStepIsSkipped ==
    plCall.op = "run" =>
        /\ Ran /\ ResultsArePrefix
        /\ \A i \in 1..RanCount :
              ~RanSteps[i].enabled
              => /\ RanResult.step_results[i] =
                       StepResult(RanSteps[i].step_name, "skipped", {}, {})
                 /\ \A k \in 1..Len(plCall.invoked) :
                       plCall.invoked[k] # RanSteps[i].step_name
                 /\ i < Len(RanSteps) => RanCount > i
        /\ LET without == PipelineRunner_run(plCall.handlers,
                                             EnabledOnly(plCall.spec), {})
           IN  /\ without.result # {}
               /\ \A r \in without.result :
                     /\ r.status = RanResult.status
                     /\ r.step_results =
                           SelectSeq(RanResult.step_results, IsNotSkipped)
               /\ without.invoked = plCall.invoked

\* a disabled first step with stop_condition always and a registered
\* handler that would raise: skipped, and the second step ran to completion
C11_Witness ==
    /\ Ran
    /\ RanCount = 2
    /\ ~RanSteps[1].enabled
    /\ RanSteps[1].stop_condition = "always"
    /\ RanSteps[1].handler = "fail"
    /\ "fail" \in DOMAIN plCall.handlers
    /\ RanResult.step_results[1].status = "skipped"
    /\ RanResult.step_results[2].status = "completed"
    /\ RanResult.status = "completed"

(***************************************************************************)
(* Properties of run_with_retry                                            *)
(***************************************************************************)
RetryRan == retryCall.op = "run"

\* the policy in force, the result returned and the calls of fn made
RetryP   == PolicyOrDefault(retryCall.policy)
RetryRes == CHOOSE r \in retryCall.result : TRUE
RetryFn  == retryCall.fn

\* C12: run_with_retry never makes a max_retries+1-th invocation, and it
\* stops at the first success: when the k-th invocation is the first that
\* returns, the result is success=true, attempts=k, result=the value
\* returned, and k invocations were made in all; a result with success=true
\* comes from nowhere else.
C12_StopsAtFirstSuccess ==
    RetryRan =>
        /\ retryCall.raised = None /\ retryCall.result # {}
        /\ \A k \in 1..retryCall.invoked : k <= RetryP.max_retries
        /\ \A k \in 1..retryCall.invoked :
              (/\ CallFn(RetryFn, k).raised = None
               /\ \A j \in 1..(k - 1) : CallFn(RetryFn, j).raised # None)
              => /\ RetryRes = RetryResult(TRUE, k, CallFn(RetryFn, k).value, {})
                 /\ retryCall.invoked = k
        /\ RetryRes.success
              => /\ retryCall.invoked >= 1
                 /\ CallFn(RetryFn, retryCall.invoked).raised = None

\* two failures and then a value at the third of three permitted attempts
C12_Witness ==
    /\ RetryRan
    /\ RetryP.max_retries = 3
    /\ CallFn(RetryFn, 1).raised = "RuntimeError"
    /\ CallFn(RetryFn, 2).raised = "ValueError"
    /\ CallFn(RetryFn, 3).raised = None
    /\ CallFn(RetryFn, 4).raised = None
    /\ retryCall.invoked = 3
    /\ RetryRes = RetryResult(TRUE, 3, {"ok"}, {})

\* the k-th call of the operation raises, and a kind the policy aborts on
FnFails(k) == CallFn(RetryFn, k).raised # None
FnAborts(k) == FnFails(k) /\ CallFn(RetryFn, k).raised \in RetryP.abort_on

\* C13: when an invocation raises an exception whose class name is in
\* policy.abort_on, it is the last invocation even when attempts remain,
\* and run_with_retry returns (does not raise) success=false, attempts =
\* the number of invocations made, error = "Aborted: " + the message.
C13_AbortOnListedException ==
    RetryRan =>
        \A k \in 1..retryCall.invoked :
            FnAborts(k)
            => /\ retryCall.invoked = k
               /\ retryCall.raised = None
               /\ retryCall.result =
                     {RetryResult(FALSE, k, {},
                         {<<"Aborted: ">> \o CallFn(RetryFn, k).message})}

\* a ValueError on the abort list at the second of three permitted attempts
C13_Witness ==
    /\ RetryRan
    /\ RetryP.max_retries = 3
    /\ RetryP.abort_on = {"ValueError"}
    /\ CallFn(RetryFn, 1).raised = "RuntimeError"
    /\ CallFn(RetryFn, 2).raised = "ValueError"
    /\ retryCall.invoked = 2
    /\ RetryRes = RetryResult(FALSE, 2, {}, {<<"Aborted: ", "fatal">>})

\* C14: when every permitted attempt raises an exception whose class name is
\* not in abort_on, run_with_retry returns (does not raise) success=false
\* and attempts = max_retries, having invoked the operation max_retries
\* times, with error = the message of the last exception; a policy that
\* permits no attempt (max_retries < 1) raises none and reports no error.
C14_ExhaustionReturnsLastError ==
    (/\ RetryRan
     /\ \A k \in 1..RetryP.max_retries : FnFails(k) /\ ~FnAborts(k))
    => /\ retryCall.raised = None
       /\ retryCall.result # {}
       /\ ~RetryRes.success
       /\ RetryRes.attempts = RetryP.max_retries
       /\ RetryRes.result = {}
       /\ IF RetryP.max_retries >= 1
          THEN /\ retryCall.invoked = RetryP.max_retries
               /\ RetryRes.error =
                     {CallFn(RetryFn, RetryP.max_retries).message}
          ELSE /\ retryCall.invoked = 0
               /\ RetryRes.error = {}

\* two attempts permitted, two different exceptions: the second is reported
C14_Witness ==
    /\ RetryRan
    /\ RetryP.max_retries = 2
    /\ RetryP.abort_on = {}
    /\ CallFn(RetryFn, 1).raised = "RuntimeError"
    /\ CallFn(RetryFn, 2).raised = "ValueError"
    /\ CallFn(RetryFn, 3).raised = None
    /\ retryCall.invoked = 2
    /\ RetryRes = RetryResult(FALSE, 2, {}, {<<"fatal">>})

(***************************************************************************)
(* Properties of the intent router                                         *)
(***************************************************************************)
Routed == rtrCall.op = "route"

RoutedIntent == CHOOSE intent \in rtrCall.intent : TRUE

\* the rules in list_rules order
Listed == IntentRouter_list_rules(rtrRules)

\* the rule is enabled and its keyword or pattern is found in the intent
EnabledMatch(rule, intent) ==
    /\ rule.enabled
    /\ IntentRouter_matches(rule, intent).raised = None
    /\ IntentRouter_matches(rule, intent).value

\* the rule is enabled and its pattern is no regular expression
EnabledBadPattern(rule, intent) ==
    rule.enabled /\ IntentRouter_matches(rule, intent).raised # None

\* the positions of the first enabled rule that matches: one or none
FirstMatches(intent) ==
    {i \in 1..Len(Listed) :
        /\ EnabledMatch(Listed[i], intent)
        /\ \A j \in 1..(i - 1) : ~EnabledMatch(Listed[j], intent)}

\* what route returns for the rule at position i of the list, or for none
ResultFor(found) ==
    IF found = {}
    THEN RoutingResult(FALSE, {}, {}, {})
    ELSE LET R == Listed[CHOOSE i \in found : TRUE]
         IN  RoutingResult(TRUE, {R.rule_id}, {R.target_persona},
                           R.target_agent)

\* C15 as stated: route returns matched=true with the rule_id,
\* target_persona and target_agent of R if and only if R is the first rule
\* in list_rules order that is enabled and matches the intent, and
\* matched=false with the three fields absent when no enabled rule matches.
C15_RouteReturnsFirstEnabledMatch ==
    Routed =>
        /\ rtrCall.raised = None
        /\ rtrCall.result = {ResultFor(FirstMatches(RoutedIntent))}

\* an enabled rule whose pattern does not compile is evaluated before any
\* enabled rule that matches
ReachesBadPattern(intent) ==
    \E i \in 1..Len(Listed) :
        /\ EnabledBadPattern(Listed[i], intent)
        /\ \A j \in 1..(i - 1) : ~EnabledMatch(Listed[j], intent)

\* C15, amended: route raises the regular-expression error, and returns
\* nothing, when in list_rules order an enabled pattern rule whose
\* match_value is no regular expression comes before every enabled rule
\* that matches; in every other case it returns the result of the first
\* enabled rule that matches (disabled rules neither match nor shadow), and
\* matched=false with the three fields absent when there is none.
C15_RouteFirstEnabledMatchOrError ==
    Routed =>
        IF ReachesBadPattern(RoutedIntent)
        THEN rtrCall.raised = "re.error" /\ rtrCall.result = {}
        ELSE /\ rtrCall.raised = None
             /\ rtrCall.result = {ResultFor(FirstMatches(RoutedIntent))}

\* a disabled rule of priority 100 that would match, even one with a bad
\* pattern, and the result is the enabled rule of priority 1 added last
C15_Witness ==
    /\ Routed
    /\ Len(Listed) = 3
    /\ ~Listed[1].enabled /\ Listed[1].priority = 100
    /\ Listed[1].match_value = <<"(">>
    /\ ~Listed[2].enabled /\ Listed[2].match_strategy = "keyword"
    /\ RoutedIntent = <<"a", "b", "d">>
    /\ Listed[3].enabled /\ Listed[3].priority = 1
    /\ rtrRules[3] = Listed[3]
    /\ rtrCall.result = {ResultFor({3})}

RuleIdsOf(rules) == {rules[i].rule_id : i \in 1..Len(rules)}
RulesIn(rules) == {rules[i] : i \in 1..Len(rules)}

\* C16: list_rules returns every rule of the router exactly once, sorted by
\* priority descending, two rules of equal priority in the order of their
\* latest adds.
C16_ListRulesSortedStable ==
    rtrCall.op = "list_rules" =>
        LET L == rtrCall.listed IN
        /\ RulesIn(L) = RulesIn(rtrRules)
        /\ Len(L) = Cardinality(RulesIn(rtrRules))
        /\ \A i, j \in 1..Len(L) :
              i < j => /\ L[i].priority >= L[j].priority
                       /\ L[i].priority = L[j].priority
                          => <<L[i].rule_id, L[j].rule_id>> \in rtrAddedBefore

\* three rules listed in another order than they are stored in, the two of
\* priority 1 in the order of their adds: r1 was added after r3
C16_Witness ==
    /\ rtrCall.op = "list_rules"
    /\ Len(rtrCall.listed) = 3
    /\ rtrCall.listed[1].priority = 100
    /\ rtrCall.listed[2].priority = 1 /\ rtrCall.listed[2].rule_id = "r3"
    /\ rtrCall.listed[3].priority = 1 /\ rtrCall.listed[3].rule_id = "r1"
    /\ rtrRules[1].rule_id = "r3"
    /\ rtrRules[2].rule_id = "r2"

CalledRuleId == CHOOSE id \in rtrCall'.rule_id : TRUE

\* C17: no two rules of the router share a rule_id; add_rule with a rule_id
\* that is present raises ValueError and leaves the list of rules as it was
\* (and with a new rule_id it returns); remove_rule returns true exactly
\* when a rule of that id was present, the rule is then gone and the other
\* rules stay, and when it returns false the list is as it was.
C17_RuleIdsAreUnique ==
    [][/\ Cardinality(RuleIdsOf(rtrRules')) = Len(rtrRules')
       /\ rtrCall'.op = "add_rule"
          => IF CalledRuleId \in RuleIdsOf(rtrRules)
             THEN rtrCall'.raised = "ValueError" /\ rtrRules' = rtrRules
             ELSE rtrCall'.raised = None
                  /\ CalledRuleId \in RuleIdsOf(rtrRules')
       /\ rtrCall'.op = "remove_rule"
          => /\ rtrCall'.raised = None
             /\ rtrCall'.removed <=> CalledRuleId \in RuleIdsOf(rtrRules)
             /\ RulesIn(rtrRules') =
                   {r \in RulesIn(rtrRules) : r.rule_id # CalledRuleId}
             /\ ~rtrCall'.removed => rtrRules' = rtrRules
      ]_vars

\* add_rule has just failed on a router of two rules
C17_Witness ==
    /\ rtrCall.op = "add_rule"
    /\ rtrCall.raised = "ValueError"
    /\ Len(rtrRules) = 2
    /\ rtrCall.rule_id = {rtrRules[1].rule_id}

(***************************************************************************)
(* Properties of the permission checker                                    *)
(***************************************************************************)
Checked == permCall.op = "check"

Decision == CHOOSE d \in permCall.decision : TRUE

\* the tool passes the allowlist of the policy
PassesAllowlist ==
    \/ permCall.policy.allowed_tools = {}
    \/ permCall.tool_name \in permCall.policy.allowed_tools

\* the permissions that the tool requires
RequiredSet ==
    {permCall.tool_permissions.required_permissions[i] :
        i \in 1..Len(permCall.tool_permissions.required_permissions)}

\* C18: the decision is allowed=true if and only if the policy's
\* allowed_tools is empty or contains the tool name, and every required
\* permission is in the policy's allowed_permissions; so a policy that
\* grants no permission denies every tool that requires one, and a tool
\* outside a non-empty allowlist is denied with the allowlist reason, which
\* names the tool and the persona, whatever permissions are granted.
C18_AllowedIffAllowlistAndGrants ==
    Checked =>
        /\ Decision.allowed
              <=> (PassesAllowlist
                   /\ RequiredSet \subseteq permCall.policy.allowed_permissions)
        /\ (permCall.policy.allowed_permissions = {} /\ RequiredSet # {})
              => ~Decision.allowed
        /\ ~PassesAllowlist
              => Decision =
                    PolicyDecision(FALSE,
                        <<"Tool '", permCall.tool_name,
                          "' is not in the allowlist for persona '",
                          permCall.policy.persona, "'">>)

\* evil_tool against the allowlist {safe_tool}, with the permission it
\* requires granted: denied for the allowlist
C18_Witness ==
    /\ Checked
    /\ permCall.tool_name = "evil_tool"
    /\ permCall.policy.allowed_tools = {"safe_tool"}
    /\ permCall.policy.allowed_permissions = {"EXEC_SHELL"}
    /\ permCall.tool_permissions.required_permissions = <<"EXEC_SHELL">>
    /\ ~Decision.allowed
    /\ Decision.reason[1] = "Tool '"

\* C19: two ToolPermissions values with the same required_permissions get
\* the same decision, allowed flag and reason, under the same policy and
\* tool name, whatever their optional_permissions are.
C19_OptionalPermissionsDoNotCount ==
    Checked =>
        \A opt \in PermissionLists(MaxOptional) :
            check_tool_permission(
                permCall.policy,
                ToolPermissions(permCall.tool_permissions.required_permissions,
                                opt),
                permCall.tool_name) = Decision

\* an optional permission that the policy does not grant, and the tool is
\* allowed for the required permission that the policy grants
C19_Witness ==
    /\ Checked
    /\ permCall.tool_permissions.required_permissions = <<"READ_FS">>
    /\ permCall.tool_permissions.optional_permissions = <<"WRITE_FS">>
    /\ permCall.policy.allowed_permissions = {"READ_FS"}
    /\ Decision = PolicyDecision(TRUE, <<"All checks passed">>)

(***************************************************************************)
(* Properties of register on a version change                              *)
(***************************************************************************)
\* the call registers, for a stored name, another spec of another version
VersionChangeCall(call) ==
    /\ call.op = "register"
    /\ call.prev # {}
    /\ \A r \in call.prev, s \in call.spec :
          r.spec # s /\ r.spec.version # s.version

\* after the call the entry holds the new spec and the enabled flag it had
OverwrittenKeepingEnabled(call, reg) ==
    /\ call.raised = None
    /\ call.name \in DOMAIN reg
    /\ \A r \in call.prev, s \in call.spec :
          /\ reg[call.name].spec = s
          /\ reg[call.name].enabled = r.enabled
    /\ call.ret = {reg[call.name]}

\* C20: register, for a name that is stored, of a spec that differs from
\* the stored one and has another version returns, replaces the stored spec
\* by the new one and keeps the enabled flag of the entry: disabled stays
\* disabled and enabled stays enabled, in the agent registry and in the
\* tool registry.
C20_VersionChangeKeepsEnabled ==
    /\ VersionChangeCall(regCall) => OverwrittenKeepingEnabled(regCall, agentReg)
    /\ VersionChangeCall(toolCall) => OverwrittenKeepingEnabled(toolCall, toolReg)

\* a disabled entry has just been re-registered under another version, in
\* both registries, and is still disabled
C20_Witness ==
    /\ VersionChangeCall(regCall) /\ VersionChangeCall(toolCall)
    /\ \A r \in regCall.prev : ~r.enabled
    /\ \A r \in toolCall.prev : ~r.enabled
    /\ ~agentReg[regCall.name].enabled
    /\ ~toolReg[toolCall.name].enabled
    /\ \A s \in regCall.spec : agentReg[regCall.name].spec = s

(***************************************************************************)
(* Properties of the registries: idempotence, listing, frames              *)
(***************************************************************************)
\* the call registers, for a stored name, the spec that is stored
IdenticalCall(call) ==
    /\ call.op = "register"
    /\ call.prev # {}
    /\ \A r \in call.prev, s \in call.spec : r.spec = s

\* C21: register of a spec equal to the one stored under its name returns
\* the stored registration and leaves the whole registry as it was: the
\* entry keeps its enabled flag, also when disabled, and its created_at,
\* also when time has passed; in the agent and in the tool registry.
C21_RegisterIdenticalIsNoOp ==
    [][ /\ IdenticalCall(regCall')
            => /\ regCall'.raised = None
               /\ regCall'.ret = DictGet(agentReg, regCall'.name)
               /\ agentReg' = agentReg
        /\ IdenticalCall(toolCall')
            => /\ toolCall'.raised = None
               /\ toolCall'.ret = DictGet(toolReg, toolCall'.name)
               /\ toolReg' = toolReg ]_vars

\* a disabled entry created at time 0 has been re-registered at time 1 with
\* its own spec: it is still disabled and still stamped 0
C21_Witness ==
    /\ IdenticalCall(regCall) /\ IdenticalCall(toolCall)
    /\ clock = 1
    /\ regCall.ret = {agentReg[regCall.name]}
    /\ ~agentReg[regCall.name].enabled
    /\ agentReg[regCall.name].created_at = 0
    /\ ~toolReg[toolCall.name].enabled
    /\ toolReg[toolCall.name].created_at = 0

\* the names of the listed registrations, in the order of the list
ListedAgentNames ==
    [i \in 1..Len(regCall.listed) |-> regCall.listed[i].spec.agent_name]

ListedToolNames ==
    [i \in 1..Len(toolCall.listed) |-> toolCall.listed[i].spec.tool_name]

StrictlyAscending(names) ==
    \A i, j \in 1..Len(names) : i < j => NameRank(names[i]) < NameRank(names[j])

\* C22: list_all, with either value of include_disabled, returns the
\* registrations in strictly ascending order of name, so each name at most
\* once, and the list is the same for every order in which the dict may
\* hold its entries: two registries with the same entries list the same.
C22_ListAllSortedByName ==
    /\ regCall.op = "list_all"
          => /\ StrictlyAscending(ListedAgentNames)
             /\ \A order \in DictOrders(agentReg) :
                   InMemoryAgentRegistry_list_all(
                       agentReg, order, regCall.include_disabled)
                     = regCall.listed
    /\ toolCall.op = "list_all"
          => /\ StrictlyAscending(ListedToolNames)
             /\ \A order \in DictOrders(toolReg) :
                   InMemoryToolRegistry_list_all(
                       toolReg, order, toolCall.include_disabled)
                     = toolCall.listed

\* two entries, bravo created before alpha, listed alpha first
C22_Witness ==
    /\ regCall.op = "list_all" /\ toolCall.op = "list_all"
    /\ ListedAgentNames = <<"alpha", "bravo">>
    /\ ListedToolNames = <<"alpha", "bravo">>
    /\ agentReg["bravo"].created_at < agentReg["alpha"].created_at
    /\ toolReg["bravo"].created_at < toolReg["alpha"].created_at

\* the names that list_all must show
VisibleNames(reg, include_disabled) ==
    {name \in DOMAIN reg : include_disabled \/ reg[name].enabled}

\* C23: list_all() holds exactly the registered entries whose enabled flag
\* is true and list_all(include_disabled=true) exactly all registered
\* entries, each as it is stored; so a disabled entry is absent from the
\* first and present, with enabled=false, in the second.
C23_ListAllFollowsEnabled ==
    /\ regCall.op = "list_all"
          => /\ {ListedAgentNames[i] : i \in 1..Len(ListedAgentNames)}
                   = VisibleNames(agentReg, regCall.include_disabled)
             /\ \A i \in 1..Len(regCall.listed) :
                   regCall.listed[i] = agentReg[ListedAgentNames[i]]
    /\ toolCall.op = "list_all"
          => /\ {ListedToolNames[i] : i \in 1..Len(ListedToolNames)}
                   = VisibleNames(toolReg, toolCall.include_disabled)
             /\ \A i \in 1..Len(toolCall.listed) :
                   toolCall.listed[i] = toolReg[ListedToolNames[i]]

\* alpha is registered and disabled, bravo is enabled: list_all() is bravo
C23_Witness ==
    /\ regCall.op = "list_all" /\ ~regCall.include_disabled
    /\ DOMAIN agentReg = {"alpha", "bravo"}
    /\ ~agentReg["alpha"].enabled
    /\ ListedAgentNames = <<"bravo">>
    /\ ListedToolNames = <<"bravo">>

\* what set_enabled(name, e) must do to a registry, from the dict before the
\* call to the dict after it
SetEnabledEffect(call, before, after) ==
    IF call.name \notin DOMAIN before
    THEN /\ call.raised = "KeyError"
         /\ call.msg = <<call.name>>
         /\ call.ret = {}
         /\ after = before
    ELSE /\ call.raised = None
         /\ DOMAIN after = DOMAIN before
         /\ \A other \in DOMAIN before \ {call.name} :
               after[other] = before[other]
         /\ after[call.name].spec = before[call.name].spec
         /\ after[call.name].created_at = before[call.name].created_at
         /\ after[call.name].enabled = call.enabled
         /\ call.ret = {after[call.name]}
         /\ before[call.name].enabled = call.enabled
               => (after = before /\ call.ret = {before[call.name]})

\* C24: set_enabled(name, e) changes nothing but the enabled flag of the
\* named entry: an unknown name raises the not-registered KeyError and
\* creates no entry; a known name keeps its spec and created_at and every
\* other entry; a flag that already equals e leaves the registry unchanged
\* and returns the stored registration.
C24_SetEnabledChangesOnlyTheFlag ==
    [][ /\ regCall'.op = "set_enabled"
           => SetEnabledEffect(regCall', agentReg, agentReg')
        /\ toolCall'.op = "set_enabled"
           => SetEnabledEffect(toolCall', toolReg, toolReg') ]_vars

\* bravo was unknown and the call failed, with alpha still registered;
\* this is the state after the failed call
C24_Witness ==
    /\ regCall.op = "set_enabled" /\ toolCall.op = "set_enabled"
    /\ regCall.name = "bravo" /\ regCall.raised = "KeyError"
    /\ toolCall.raised = "KeyError"
    /\ DOMAIN agentReg = {"alpha"} /\ DOMAIN toolReg = {"alpha"}
    /\ ~agentReg["alpha"].enabled

\* what remove(name) must do to a registry
RemoveEffect(call, before, after, again) ==
    /\ call.raised = None
    /\ call.name \notin DOMAIN after
    /\ DOMAIN after = DOMAIN before \ {call.name}
    /\ \A other \in DOMAIN after : after[other] = before[other]
    /\ again.raised = None
    /\ again.reg = after

\* C25: remove(name) never fails, leaves get(name) absent whether or not the
\* name was registered, keeps every other entry, and a second remove(name)
\* right after it gives the state the first one gave.
C25_RemoveIsIdempotent ==
    [][ /\ regCall'.op = "remove"
           => /\ RemoveEffect(regCall', agentReg, agentReg',
                     InMemoryAgentRegistry_remove(agentReg', regCall'.name))
              /\ InMemoryAgentRegistry_get(agentReg', regCall'.name) = {}
        /\ toolCall'.op = "remove"
           => /\ RemoveEffect(toolCall', toolReg, toolReg',
                     InMemoryToolRegistry_remove(toolReg', toolCall'.name))
              /\ InMemoryToolRegistry_get(toolReg', toolCall'.name) = {}
      ]_vars

\* remove of a name that was not registered, beside an entry that stays
C25_Witness ==
    /\ regCall.op = "remove" /\ toolCall.op = "remove"
    /\ regCall.name = "bravo" /\ regCall.prev = {} /\ toolCall.prev = {}
    /\ regCall.raised = None /\ toolCall.raised = None
    /\ DOMAIN agentReg = {"alpha"} /\ DOMAIN toolReg = {"alpha"}

\* an agent registration and a tool registration that correspond
SameEntry(a, t) ==
    /\ a.spec.agent_name = t.spec.tool_name
    /\ a.spec.version = t.spec.version
    /\ a.spec.body = t.spec.body
    /\ a.enabled = t.enabled

\* C26: driven by the same calls on corresponding specs, the two registries
\* give each call the same outcome (success, ValueError or KeyError) and the
\* same returned or listed entries, and hold after it the same names with
\* the same versions and enabled flags.
C26_RegistriesAgree ==
    /\ regCall.op = toolCall.op
    /\ regCall.name = toolCall.name
    /\ regCall.raised = toolCall.raised
    /\ (regCall.ret = {}) = (toolCall.ret = {})
    /\ \A a \in regCall.ret, t \in toolCall.ret : SameEntry(a, t)
    /\ Len(regCall.listed) = Len(toolCall.listed)
    /\ \A i \in 1..Len(regCall.listed) :
          SameEntry(regCall.listed[i], toolCall.listed[i])
    /\ DOMAIN agentReg = DOMAIN toolReg
    /\ \A name \in DOMAIN agentReg : SameEntry(agentReg[name], toolReg[name])

\* a same-version change of a disabled unversioned entry: both registries
\* refuse it, beside a second entry
C26_Witness ==
    /\ regCall.op = "register" /\ toolCall.op = "register"
    /\ regCall.raised = "ValueError" /\ toolCall.raised = "ValueError"
    /\ \E s \in regCall.spec : s.version = None
    /\ DOMAIN agentReg = {"alpha", "bravo"}
    /\ ~agentReg[regCall.name].enabled /\ ~toolReg[toolCall.name].enabled

\* C27: every policy has max_retries >= 1, so every run invokes the
\* operation at least once, every result has 1 <= attempts <= max_retries,
\* and every result with success=false carries an error message.
C27_AtLeastOneAttempt ==
    RetryRan
       => /\ RetryP.max_retries >= 1
          /\ retryCall.invoked >= 1
          /\ 1 <= RetryRes.attempts
          /\ RetryRes.attempts <= RetryP.max_retries
          /\ ~RetryRes.success => RetryRes.error # {}

\* the same, for the policies that do have max_retries >= 1
AtLeastOneAttemptWhenPositive ==
    (RetryRan /\ RetryP.max_retries >= 1)
       => /\ retryCall.invoked >= 1
          /\ 1 <= RetryRes.attempts
          /\ RetryRes.attempts <= RetryP.max_retries
          /\ ~RetryRes.success => RetryRes.error # {}

\* C28: with backoff_seconds > 0 every sleep lasts backoff_seconds and there
\* is one sleep between every two consecutive attempts and none after the
\* attempt that ends the run: the number of sleeps is attempts - 1.
C28_SleepsBetweenAttempts ==
    (RetryRan /\ RetryP.backoff_seconds > 0)
       => /\ \A i \in 1..Len(retryCall.sleeps) :
                retryCall.sleeps[i] = RetryP.backoff_seconds
          /\ Len(retryCall.sleeps) = RetryRes.attempts - 1

\* the same, counted against the calls of the operation that were made
SleepsBetweenInvocations ==
    (RetryRan /\ RetryP.backoff_seconds > 0)
       => /\ \A i \in 1..Len(retryCall.sleeps) :
                retryCall.sleeps[i] = RetryP.backoff_seconds
          /\ Len(retryCall.sleeps)
                = IF retryCall.invoked = 0 THEN 0 ELSE retryCall.invoked - 1
          /\ RetryP.max_retries >= 1
                => Len(retryCall.sleeps) = RetryRes.attempts - 1

\* the entries of the dict the caller passed to the last run (none for None)
CallerEntries ==
    IF plCall.context = {}
    THEN EmptyDict
    ELSE CallerContexts[CHOOSE object \in plCall.context : TRUE]

\* the callable behind the k-th handler call of the last run
InvokedHandler(k) ==
    LET step == CHOOSE i \in 1..Len(RanSteps) :
                    RanSteps[i].step_name = plCall.invoked[k]
    IN  plCall.handlers[RanSteps[step].handler]

\* C29: in one run the first invoked handler is handed a dict holding the
\* caller's entries and every later one the dict as the handlers before it
\* left it, so a key put by an earlier step is there for all later steps;
\* the caller's own dicts keep exactly their keys, whatever the handlers
\* put or pop, so no run sees what an earlier run wrote.
C29_ContextSharedWithinRunOnly ==
    /\ plContexts = CallerContexts
    /\ plCall.op = "run"
          => /\ Len(plCall.seen) = Len(plCall.invoked)
             /\ plCall.seen # <<>> => plCall.seen[1] = CallerEntries
             /\ \A k \in 1..(Len(plCall.seen) - 1) :
                   plCall.seen[k + 1]
                      = HandlerWrites(InvokedHandler(k), plCall.seen[k])
             /\ \A k, m \in 1..Len(plCall.seen) :
                   (k < m /\ InvokedHandler(k) = "put")
                      => /\ "step" \in DOMAIN plCall.seen[m]
                         /\ plCall.seen[m]["step"] = "done"

\* run(spec, context=c1): the first step put a key, the second step saw it
\* beside the caller's entry, and popped the caller's key from ctx
C29_Witness ==
    /\ plCall.op = "run" /\ plCall.context = {"c1"}
    /\ plCall.invoked = <<"s1", "s2">>
    /\ InvokedHandler(1) = "put" /\ InvokedHandler(2) = "pop"
    /\ plCall.seen[1] = [k \in {"key"} |-> "value"]
    /\ DOMAIN plCall.seen[2] = {"key", "step"}
    /\ DOMAIN plContexts["c1"] = {"key"}

\* register_agent failed with the conflict error of the registry
RegisterAgentConflict(call) ==
    call.op = "register_agent" /\ call.raised = "ValueError"

\* C30: a register_agent that fails with the registry's conflict error
\* leaves the handler map as it was, and the registry too, so the name still
\* dispatches to the handler registered before and a handler map and a
\* registry entry that described the same handler still do.
C30_RegisterAgentAllOrNothing ==
    [][ RegisterAgentConflict(rtCall')
           => /\ rtAgents' = rtAgents
              /\ agentReg' = agentReg
              /\ \A name \in DOMAIN rtAgents \cap DOMAIN agentReg :
                    agentReg[name].spec = SpecOfAgent(rtAgents[name])
                       => agentReg'[name].spec = SpecOfAgent(rtAgents'[name])
      ]_vars

\* after a failed register_agent the map holds a handler of another class
\* than the registry entry of that name describes
RegisterAgentTornState ==
    /\ RegisterAgentConflict(rtCall)
    /\ rtAgents[rtCall.agent].cls = "FailingAgent"
    /\ agentReg[rtCall.agent].spec.body = "EchoAgent"

====
